---------------------------- MODULE Spec2Model ----------------------------
(***************************************************************************)
(* NeighborFit: the compatibility scoring engine (MatchingAlgorithm) and   *)
(* the POST /api/matching route that applies it to a batch of              *)
(* neighborhoods.                                                          *)
(*                                                                         *)
(* JavaScript numbers are modelled as exact rationals extended with the    *)
(* three non-finite values a division by zero produces (Infinity,          *)
(* -Infinity, NaN).  The decimal literals of the source (0.3, 0.4, 0.6,    *)
(* 1.2, 1.5) stand for the exact fractions; binary rounding error of the   *)
(* IEEE doubles and the sign of zero are not modelled.                     *)
(***************************************************************************)
EXTENDS Integers, Sequences, FiniteSets, TLC

(***************************************************************************)
(* JavaScript numbers.  A number is a record [n, d]: the rational n/d in   *)
(* lowest terms with d > 0, or, with d = 0, Infinity (n = 1), -Infinity    *)
(* (n = -1) or NaN (n = 0).                                                *)
(***************************************************************************)
Abs(x) == IF x < 0 THEN -x ELSE x

Sign(x) == IF x > 0 THEN 1 ELSE IF x < 0 THEN -1 ELSE 0

RECURSIVE GCD(_, _)
GCD(a, b) == IF b = 0 THEN a ELSE GCD(b, a % b)

\* The number n/d, following the rules of JavaScript division for d = 0.
Num(n, d) ==
    IF d = 0 THEN [n |-> Sign(n), d |-> 0]
    ELSE LET g == GCD(Abs(n), Abs(d))
             s == Sign(d)
         IN  [n |-> (s * n) \div g, d |-> (s * d) \div g]

I(k) == [n |-> k, d |-> 1]

NaN == [n |-> 0, d |-> 0]

IsNaN(x) == x.d = 0 /\ x.n = 0

IsFinite(x) == x.d > 0

\* Number.isInteger
IsInteger(x) == x.d = 1

\* a + b
Add(a, b) ==
    IF IsNaN(a) \/ IsNaN(b) THEN NaN
    ELSE IF a.d = 0 /\ b.d = 0 THEN (IF a.n = b.n THEN a ELSE NaN)
    ELSE IF a.d = 0 THEN a
    ELSE IF b.d = 0 THEN b
    ELSE Num(a.n * b.d + b.n * a.d, a.d * b.d)

\* a * b
Mul(a, b) ==
    IF IsNaN(a) \/ IsNaN(b) THEN NaN
    ELSE IF a.d = 0 \/ b.d = 0 THEN Num(Sign(a.n) * Sign(b.n), 0)
    ELSE Num(a.n * b.n, a.d * b.d)

\* a - b
Sub(a, b) == Add(a, Mul(I(-1), b))

\* a / b
Div(a, b) ==
    IF IsNaN(a) \/ IsNaN(b) THEN NaN
    ELSE IF b.d = 0 THEN (IF a.d = 0 THEN NaN ELSE I(0))
    ELSE IF a.d = 0 THEN (IF b.n < 0 THEN Num(-a.n, 0) ELSE a)
    ELSE Num(a.n * b.d, a.d * b.n)

\* a < b; every comparison with NaN is false
Lt(a, b) ==
    /\ ~IsNaN(a)
    /\ ~IsNaN(b)
    /\ IF a.d = 0 /\ b.d = 0 THEN a.n < b.n
       ELSE IF a.d = 0 THEN a.n < 0
       ELSE IF b.d = 0 THEN b.n > 0
       ELSE a.n * b.d < b.n * a.d

\* a <= b
Le(a, b) == ~IsNaN(a) /\ ~IsNaN(b) /\ ~Lt(b, a)

\* a > b
Gt(a, b) == Lt(b, a)

\* a >= b
Ge(a, b) == Le(b, a)

\* Math.min(a, b)
MathMin(a, b) ==
    IF IsNaN(a) \/ IsNaN(b) THEN NaN ELSE IF Lt(b, a) THEN b ELSE a

\* Math.max(a, b)
MathMax(a, b) ==
    IF IsNaN(a) \/ IsNaN(b) THEN NaN ELSE IF Lt(a, b) THEN b ELSE a

\* floor of the rational n/d, d > 0
FloorDiv(n, d) == IF n >= 0 THEN n \div d ELSE -((-n + d - 1) \div d)

\* Math.round(x): the nearest integer, a tie going up; NaN and the
\* infinities are returned as they are
MathRound(x) ==
    IF x.d = 0 THEN x ELSE I(FloorDiv(2 * x.n + x.d, 2 * x.d))


(***************************************************************************)
(* MatchingAlgorithm: the eight sub-score calculators.                     *)
(***************************************************************************)
MAX_SCORE == 100

RECURSIVE SumSet(_, _)
\* the sum of f[k] over the keys k of ks
SumSet(f, ks) ==
    IF ks = {} THEN 0
    ELSE LET k == CHOOSE x \in ks : TRUE
         IN  f[k] + SumSet(f, ks \ {k})

\* Object.values(obj).reduce((sum, v) => sum + v, 0)
SumValues(obj) == SumSet(obj, DOMAIN obj)

\* calculateSafetyScore with the crime bonus on a scale of 100, not 10
calculateSafetyScore_Percent(preferences, neighborhood) ==
    LET safetyScore == I(neighborhood.safety.safetyScore)
        crimeBonus ==
            Mul(MathMax(I(0), Div(I(50 - neighborhood.safety.crimeRate), I(50))),
                I(100))
    IN  MathMin(I(MAX_SCORE), Add(safetyScore, crimeBonus))

\* calculateSafetyScore without Math.max(0, ...) around the crime term
calculateSafetyScore_Unclamped(preferences, neighborhood) ==
    LET safetyScore == I(neighborhood.safety.safetyScore)
        crimeBonus ==
            Mul(Div(I(50 - neighborhood.safety.crimeRate), I(50)), I(10))
    IN  MathMin(I(MAX_SCORE), Add(safetyScore, crimeBonus))

calculateSafetyScore(preferences, neighborhood) ==
    LET safetyScore == I(neighborhood.safety.safetyScore)
        crimeBonus ==
            Mul(MathMax(I(0), Div(I(50 - neighborhood.safety.crimeRate), I(50))),
                I(10))
    IN  MathMin(I(MAX_SCORE), Add(safetyScore, crimeBonus))

calculateAmenitiesScore(preferences, neighborhood) ==
    LET totalAmenities == SumValues(neighborhood.amenities)
        normalizedAmenities ==
            MathMin(I(100), Mul(Div(I(totalAmenities), I(50)), I(100)))
    IN  normalizedAmenities

calculateTransportationScore(preferences, neighborhood) ==
    LET transportation == neighborhood.transportation
        walkabilityWeight == Num(4, 10)
        transitWeight == Num(3, 10)
        bikeWeight == Num(3, 10)
    IN  MathRound(
            Add(Add(Mul(I(transportation.walkabilityScore), walkabilityWeight),
                    Mul(I(transportation.transitScore), transitWeight)),
                Mul(I(transportation.bikeScore), bikeWeight)))

calculateAgeGroupCompatibility(userAgeGroup, demographics) ==
    LET ageGroups == demographics.ageGroups
        totalPopulation == I(demographics.totalPopulation)
    IN  CASE userAgeGroup = "young" ->
                 Mul(Div(I(ageGroups.age18to34), totalPopulation), I(100))
          [] userAgeGroup = "family" ->
                 Mul(Div(I(ageGroups.age35to49 + ageGroups.under18),
                         totalPopulation), I(100))
          [] userAgeGroup = "senior" ->
                 Mul(Div(I(ageGroups.over65), totalPopulation), I(100))
          [] userAgeGroup = "mixed" -> I(75)
          [] OTHER -> I(50)

\* calculateActivityCompatibility without Math.round
calculateActivityCompatibility_Unrounded(userActivityLevel, lifestyle) ==
    LET outdoorScore == lifestyle.outdoorActivities
        culturalScore == lifestyle.culturalEvents
    IN  CASE userActivityLevel = "high" ->
                 Num(outdoorScore + culturalScore, 2)
          [] userActivityLevel = "medium" ->
                 Num(outdoorScore + culturalScore + 50, 3)
          [] userActivityLevel = "low" ->
                 Num(100 - outdoorScore + 100 - culturalScore, 2)
          [] OTHER -> I(50)

calculateActivityCompatibility(userActivityLevel, lifestyle) ==
    LET outdoorScore == lifestyle.outdoorActivities
        culturalScore == lifestyle.culturalEvents
    IN  CASE userActivityLevel = "high" ->
                 MathRound(Num(outdoorScore + culturalScore, 2))
          [] userActivityLevel = "medium" ->
                 MathRound(Num(outdoorScore + culturalScore + 50, 3))
          [] userActivityLevel = "low" ->
                 MathRound(Num(100 - outdoorScore + 100 - culturalScore, 2))
          [] OTHER -> I(50)

calculateSocialCompatibility(socialPreference, lifestyle) ==
    LET communityScore == lifestyle.communityEngagement
        nightlifeScore == lifestyle.nightlife
    IN  CASE socialPreference = "extrovert" ->
                 MathRound(Num(communityScore + nightlifeScore, 2))
          [] socialPreference = "introvert" ->
                 MathRound(Num(100 - communityScore + 100 - nightlifeScore, 2))
          [] socialPreference = "balanced" ->
                 MathRound(Num(communityScore + (100 - nightlifeScore), 2))
          [] OTHER -> I(50)

calculateLifestyleScore(preferences, neighborhood) ==
    LET lifestyle == neighborhood.lifestyle
        userLifestyle == preferences.lifestyle
        ageGroupScore ==
            calculateAgeGroupCompatibility(userLifestyle.ageGroup,
                                           neighborhood.demographics)
        activityScore ==
            calculateActivityCompatibility(userLifestyle.activityLevel, lifestyle)
        socialScore ==
            calculateSocialCompatibility(userLifestyle.socialPreference, lifestyle)
        score ==
            Add(Add(Add(I(0), Mul(ageGroupScore, Num(3, 10))),
                    Mul(activityScore, Num(3, 10))),
                Mul(socialScore, Num(4, 10)))
    IN  MathRound(score)

\* calculateAffordabilityScore with < in place of <= at 1.2 times the budget
calculateAffordabilityScore_StrictLimit(preferences, neighborhood) ==
    LET budget == preferences.budget
        medianIncome == neighborhood.demographics.medianIncome
        estimatedHousingCost == Mul(I(medianIncome), Num(3, 10))
    IN  IF Le(estimatedHousingCost, I(budget.max))
           /\ Ge(estimatedHousingCost, I(budget.min))
        THEN I(100)
        ELSE IF Lt(estimatedHousingCost, Mul(I(budget.max), Num(12, 10)))
        THEN I(80)
        ELSE IF Le(estimatedHousingCost, Mul(I(budget.max), Num(15, 10)))
        THEN I(50)
        ELSE I(20)

calculateAffordabilityScore(preferences, neighborhood) ==
    LET budget == preferences.budget
        medianIncome == neighborhood.demographics.medianIncome
        estimatedHousingCost == Mul(I(medianIncome), Num(3, 10))
    IN  IF Le(estimatedHousingCost, I(budget.max))
           /\ Ge(estimatedHousingCost, I(budget.min))
        THEN I(100)
        ELSE IF Le(estimatedHousingCost, Mul(I(budget.max), Num(12, 10)))
        THEN I(80)
        ELSE IF Le(estimatedHousingCost, Mul(I(budget.max), Num(15, 10)))
        THEN I(50)
        ELSE I(20)

\* calculateFamilyFriendlyScore with Math.floor in place of Math.round
calculateFamilyFriendlyScore_Floor(preferences, neighborhood) ==
    LET demographics == neighborhood.demographics
        amenities == neighborhood.amenities
        schools == MathMin(I(25), I(amenities.schools * 5))
        parks ==
            MathMin(I(25),
                    I((amenities.parks + neighborhood.lifestyle.familyActivities) * 2))
        familyPercentage ==
            Div(I(demographics.ageGroups.under18 + demographics.ageGroups.age35to49),
                I(demographics.totalPopulation))
        score == Add(Add(Add(I(0), schools), parks), Mul(familyPercentage, I(50)))
    IN  IF score.d = 0 THEN score ELSE I(FloorDiv(score.n, score.d))

calculateFamilyFriendlyScore(preferences, neighborhood) ==
    LET demographics == neighborhood.demographics
        amenities == neighborhood.amenities
        schools == MathMin(I(25), I(amenities.schools * 5))
        parks ==
            MathMin(I(25),
                    I((amenities.parks + neighborhood.lifestyle.familyActivities) * 2))
        familyPercentage ==
            Div(I(demographics.ageGroups.under18 + demographics.ageGroups.age35to49),
                I(demographics.totalPopulation))
        score == Add(Add(Add(I(0), schools), parks), Mul(familyPercentage, I(50)))
    IN  MathRound(score)

\* calculateNightlifeScore without the cap of 40 on the venue term
calculateNightlifeScore_Uncapped(preferences, neighborhood) ==
    LET amenities == neighborhood.amenities
        lifestyle == neighborhood.lifestyle
        venues == I((amenities.bars + amenities.restaurants) * 2)
        score == Add(Add(I(0), venues), Mul(I(lifestyle.nightlife), Num(6, 10)))
    IN  MathRound(score)

calculateNightlifeScore(preferences, neighborhood) ==
    LET amenities == neighborhood.amenities
        lifestyle == neighborhood.lifestyle
        venues == MathMin(I(40), I((amenities.bars + amenities.restaurants) * 2))
        score == Add(Add(I(0), venues), Mul(I(lifestyle.nightlife), Num(6, 10)))
    IN  MathRound(score)

\* calculateQuietnessScore without Math.max(0, ...)
calculateQuietnessScore_Unclamped(preferences, neighborhood) ==
    LET lifestyle == neighborhood.lifestyle
        amenities == neighborhood.amenities
        noiseFactors == Num(lifestyle.nightlife + amenities.entertainment, 2)
    IN  MathRound(Sub(I(100), noiseFactors))

calculateQuietnessScore(preferences, neighborhood) ==
    LET lifestyle == neighborhood.lifestyle
        amenities == neighborhood.amenities
        noiseFactors == Num(lifestyle.nightlife + amenities.entertainment, 2)
        quietnessScore == MathMax(I(0), Sub(I(100), noiseFactors))
    IN  MathRound(quietnessScore)

(***************************************************************************)
(* MatchingAlgorithm.calculateCompatibility: the weighted aggregate.       *)
(***************************************************************************)
\* Object.entries(scores): the categories in the order the object literal
\* lists them
Categories ==
    << "safety", "amenities", "transportation", "lifestyle",
       "affordability", "familyFriendly", "nightlife", "quietness" >>

\* the object literal `scores` of calculateCompatibility
subScores(preferences, neighborhood) ==
    [ safety         |-> calculateSafetyScore(preferences, neighborhood),
      amenities      |-> calculateAmenitiesScore(preferences, neighborhood),
      transportation |-> calculateTransportationScore(preferences, neighborhood),
      lifestyle      |-> calculateLifestyleScore(preferences, neighborhood),
      affordability  |-> calculateAffordabilityScore(preferences, neighborhood),
      familyFriendly |-> calculateFamilyFriendlyScore(preferences, neighborhood),
      nightlife      |-> calculateNightlifeScore(preferences, neighborhood),
      quietness      |-> calculateQuietnessScore(preferences, neighborhood) ]

\* weightOrDefault that reads every weight as 1
weightOrDefault_One(weights, category) == 1

\* weights[category] || 5: an absent key (undefined) and 0 are falsy
weightOrDefault(weights, category) ==
    IF category \in DOMAIN weights /\ weights[category] # 0
    THEN weights[category]
    ELSE 5

\* Object.values(weights).reduce((sum, weight) => sum + weight, 0): the
\* weights as supplied, an absent key adding nothing
totalWeightOf(weights) == SumValues(weights)

RECURSIVE weightedSum(_, _, _, _)
\* the for loop over Object.entries(scores), from the k-th entry on
weightedSum(scores, weights, totalWeight, k) ==
    IF k > Len(Categories) THEN I(0)
    ELSE LET category == Categories[k]
             weight == weightOrDefault(weights, category)
         IN  Add(Div(Mul(scores[category], I(weight)), I(totalWeight)),
                 weightedSum(scores, weights, totalWeight, k + 1))

\* weightedAggregate with Math.floor in place of Math.round
weightedAggregate_Floor(scores, weights) ==
    LET totalWeight == totalWeightOf(weights)
        weightedScore == weightedSum(scores, weights, totalWeight, 1)
    IN  IF weightedScore.d = 0 THEN weightedScore
        ELSE I(FloorDiv(weightedScore.n, weightedScore.d))

\* lines 29-38 of calculateCompatibility, applied to the eight sub-scores
weightedAggregate(scores, weights) ==
    LET totalWeight == totalWeightOf(weights)
        weightedScore == weightedSum(scores, weights, totalWeight, 1)
    IN  MathRound(weightedScore)

calculateCompatibility(preferences, neighborhood) ==
    weightedAggregate(subScores(preferences, neighborhood),
                      preferences.priorities)

(***************************************************************************)
(* MatchingAlgorithm: the explanation lists.                               *)
(***************************************************************************)
\* reasons.push(text) under `if (cond)`
pushIf(list, cond, text) == IF cond THEN Append(list, text) ELSE list

\* generateMatchReasons with >= in place of > in the safety rule
generateMatchReasons_AtLeast(preferences, neighborhood) ==
    LET totalAmenities == SumValues(neighborhood.amenities)
        lifestyle == preferences.lifestyle
        r1 == pushIf(<< >>, neighborhood.safety.safetyScore >= 80,
                     "Excellent safety ratings")
        r2 == pushIf(r1, totalAmenities > 30, "Abundant local amenities")
        r3 == pushIf(r2, neighborhood.transportation.walkabilityScore > 70,
                     "Highly walkable neighborhood")
        r4 == pushIf(r3, lifestyle.ageGroup = "family"
                         /\ neighborhood.demographics.familyFriendly,
                     "Family-friendly community")
    IN  r4

generateMatchReasons(preferences, neighborhood) ==
    LET totalAmenities == SumValues(neighborhood.amenities)
        lifestyle == preferences.lifestyle
        r1 == pushIf(<< >>, neighborhood.safety.safetyScore > 80,
                     "Excellent safety ratings")
        r2 == pushIf(r1, totalAmenities > 30, "Abundant local amenities")
        r3 == pushIf(r2, neighborhood.transportation.walkabilityScore > 70,
                     "Highly walkable neighborhood")
        r4 == pushIf(r3, lifestyle.ageGroup = "family"
                         /\ neighborhood.demographics.familyFriendly,
                     "Family-friendly community")
    IN  r4

generatePotentialConcerns(preferences, neighborhood) ==
    LET budget == preferences.budget
        estimatedCost == Mul(I(neighborhood.demographics.medianIncome), Num(3, 10))
        c1 == pushIf(<< >>, neighborhood.safety.crimeRate > 30,
                     "Higher than average crime rate")
        c2 == pushIf(c1, Gt(estimatedCost, I(budget.max)),
                     "May exceed your budget range")
        c3 == pushIf(c2, neighborhood.transportation.walkabilityScore < 30,
                     "Limited walkability")
    IN  c3

generateRecommendations(preferences, neighborhood) ==
    LET lifestyle == preferences.lifestyle
        r1 == pushIf(<< >>, neighborhood.transportation.walkabilityScore < 50,
                     "Consider getting a car or using ride-sharing services")
        r2 == pushIf(r1, neighborhood.safety.safetyScore < 70,
                     "Research specific safety measures and local crime patterns")
        r3 == pushIf(r2, lifestyle.activityLevel = "high"
                         /\ neighborhood.lifestyle.outdoorActivities < 50,
                     "Look for nearby parks and recreational facilities")
    IN  r3

\* generateMatchingResult that lists match reasons only for a score of 50 or more
generateMatchingResult_ScoreGated(preferences, neighborhood) ==
    LET compatibilityScore == calculateCompatibility(preferences, neighborhood)
    IN  [ neighborhood       |-> neighborhood,
          compatibilityScore |-> compatibilityScore,
          matchReasons       |-> IF Ge(compatibilityScore, I(50))
                                 THEN generateMatchReasons(preferences, neighborhood)
                                 ELSE << >>,
          potentialConcerns  |-> generatePotentialConcerns(preferences, neighborhood),
          recommendations    |-> generateRecommendations(preferences, neighborhood) ]

generateMatchingResult(preferences, neighborhood) ==
    LET compatibilityScore == calculateCompatibility(preferences, neighborhood)
    IN  [ neighborhood       |-> neighborhood,
          compatibilityScore |-> compatibilityScore,
          matchReasons       |-> generateMatchReasons(preferences, neighborhood),
          potentialConcerns  |-> generatePotentialConcerns(preferences, neighborhood),
          recommendations    |-> generateRecommendations(preferences, neighborhood) ]

(***************************************************************************)
(* POST /api/matching.                                                     *)
(***************************************************************************)
\* the nested objects the scoring code dereferences; reading a property of
\* one that is undefined throws a TypeError
PreferenceGroups == {"budget", "priorities", "lifestyle"}

NeighborhoodGroups ==
    {"demographics", "amenities", "safety", "transportation", "lifestyle"}

throwsTypeError(preferences, neighborhood) ==
    \/ ~(PreferenceGroups \subseteq DOMAIN preferences)
    \/ ~(NeighborhoodGroups \subseteq DOMAIN neighborhood)

\* mapNeighborhoods with the results in reverse order
mapNeighborhoods_Reversed(preferences, neighborhoods) ==
    [i \in 1..Len(neighborhoods) |->
        generateMatchingResult(preferences,
                               neighborhoods[Len(neighborhoods) + 1 - i])]

\* mapNeighborhoods with one recommendations array shared by the results:
\* each result carries the recommendations of the records scored before it
mapNeighborhoods_Carry(preferences, neighborhoods) ==
    LET carried[i \in 0..Len(neighborhoods)] ==
            IF i = 0 THEN << >>
            ELSE carried[i - 1]
                 \o generateRecommendations(preferences, neighborhoods[i])
    IN  [i \in 1..Len(neighborhoods) |->
            [generateMatchingResult(preferences, neighborhoods[i])
                EXCEPT !.recommendations = carried[i]]]

\* neighborhoods.map(n => MatchingAlgorithm.generateMatchingResult(preferences, n))
mapNeighborhoods(preferences, neighborhoods) ==
    [i \in 1..Len(neighborhoods) |->
        generateMatchingResult(preferences, neighborhoods[i])]

\* the route handler: the response to a request body, without its timestamp.
\* An exception thrown by the handler reaches errorHandler, which answers
\* 500 with the message of the exception.
matchingPost(body) ==
    IF ~("preferences" \in DOMAIN body) \/ ~("neighborhoods" \in DOMAIN body)
    THEN [ status |-> 400, success |-> FALSE,
           error |-> "Missing preferences or neighborhoods" ]
    ELSE IF \E i \in 1..Len(body.neighborhoods) :
                throwsTypeError(body.preferences, body.neighborhoods[i])
    THEN [ status |-> 500, success |-> FALSE, error |-> "TypeError" ]
    ELSE [ status |-> 200, success |-> TRUE,
           data |-> mapNeighborhoods(body.preferences, body.neighborhoods) ]

(***************************************************************************)
(* The request bodies the model sends: neighborhood records and preference *)
(* profiles built from a few values per attribute group, chosen at and     *)
(* around the thresholds of the scoring rules, and including the records   *)
(* a client may post that the data provider would not produce (zero        *)
(* population, out-of-range metrics, zero or absent weights, values        *)
(* outside the enums, a missing group).                                    *)
(***************************************************************************)
\* the longest list of neighborhoods in a request
MaxBatch == 2

SafetyOptions ==
    { [crimeRate |-> 0,  safetyScore |-> 100],
      [crimeRate |-> 5,  safetyScore |-> 90],
      [crimeRate |-> 30, safetyScore |-> 80],
      [crimeRate |-> 31, safetyScore |-> 70],
      [crimeRate |-> 60, safetyScore |-> 0] }

TransportationOptions ==
    { [walkabilityScore |-> 100, transitScore |-> 100, bikeScore |-> 100],
      [walkabilityScore |-> 70,  transitScore |-> 55,  bikeScore |-> 50],
      [walkabilityScore |-> 50,  transitScore |-> 40,  bikeScore |-> 45],
      [walkabilityScore |-> 30,  transitScore |-> 20,  bikeScore |-> 10],
      [walkabilityScore |-> 0,   transitScore |-> 0,   bikeScore |-> 0] }

AgeGroups(a, b, c, d, e) ==
    [under18 |-> a, age18to34 |-> b, age35to49 |-> c, age50to64 |-> d, over65 |-> e]

DemographicsOptions ==
    { [totalPopulation |-> 1000, medianIncome |-> 200000, familyFriendly |-> TRUE,
       ageGroups |-> AgeGroups(200, 250, 250, 200, 100)],
      [totalPopulation |-> 1000, medianIncome |-> 150000, familyFriendly |-> TRUE,
       ageGroups |-> AgeGroups(500, 0, 500, 0, 0)],
      [totalPopulation |-> 3, medianIncome |-> 50000, familyFriendly |-> FALSE,
       ageGroups |-> AgeGroups(1, 1, 1, 0, 0)],
      [totalPopulation |-> 1000, medianIncome |-> 0, familyFriendly |-> FALSE,
       ageGroups |-> AgeGroups(0, 0, 0, 0, 0)],
      [totalPopulation |-> 0, medianIncome |-> 75000, familyFriendly |-> TRUE,
       ageGroups |-> AgeGroups(0, 0, 0, 0, 0)],
      [totalPopulation |-> 0, medianIncome |-> 75000, familyFriendly |-> FALSE,
       ageGroups |-> AgeGroups(10, 20, 30, 0, 0)] }

AmenityCounts(r, c, b, g, p, y, s, h, m, e) ==
    [restaurants |-> r, cafes |-> c, bars |-> b, groceryStores |-> g, parks |-> p,
     gyms |-> y, schools |-> s, hospitals |-> h, shoppingCenters |-> m,
     entertainment |-> e]

AmenitiesOptions ==
    { AmenityCounts(0, 0, 0, 0, 0, 0, 0, 0, 0, 0),
      AmenityCounts(10, 3, 10, 1, 1, 1, 1, 1, 1, 1),
      AmenityCounts(12, 4, 3, 2, 4, 2, 3, 1, 1, 2),
      AmenityCounts(30, 10, 10, 5, 8, 4, 5, 2, 3, 20) }

LifestyleMetrics(n, f, o, c, e) ==
    [nightlife |-> n, familyActivities |-> f, outdoorActivities |-> o,
     culturalEvents |-> c, communityEngagement |-> e]

LifestyleOptions ==
    { LifestyleMetrics(0, 0, 0, 0, 0),
      LifestyleMetrics(45, 28, 32, 55, 65),
      LifestyleMetrics(80, 40, 50, 49, 30),
      LifestyleMetrics(100, 100, 100, 100, 100),
      LifestyleMetrics(120, 52, 64, 100, 100) }

Neighborhood(id, d, a, s, t, l) ==
    [id |-> id, demographics |-> d, amenities |-> a, safety |-> s,
     transportation |-> t, lifestyle |-> l]

BestNeighborhood ==
    Neighborhood("best",
        [totalPopulation |-> 1000, medianIncome |-> 150000, familyFriendly |-> TRUE,
         ageGroups |-> AgeGroups(500, 0, 500, 0, 0)],
        AmenityCounts(30, 10, 10, 5, 8, 4, 5, 2, 3, 20),
        [crimeRate |-> 0, safetyScore |-> 100],
        [walkabilityScore |-> 100, transitScore |-> 100, bikeScore |-> 100],
        LifestyleMetrics(100, 100, 100, 100, 100))

TypicalNeighborhood ==
    Neighborhood("typical",
        [totalPopulation |-> 1000, medianIncome |-> 200000, familyFriendly |-> TRUE,
         ageGroups |-> AgeGroups(200, 250, 250, 200, 100)],
        AmenityCounts(12, 4, 3, 2, 4, 2, 3, 1, 1, 2),
        [crimeRate |-> 5, safetyScore |-> 90],
        [walkabilityScore |-> 70, transitScore |-> 55, bikeScore |-> 50],
        LifestyleMetrics(45, 28, 32, 55, 65))

WorstNeighborhood ==
    Neighborhood("worst",
        [totalPopulation |-> 1000, medianIncome |-> 0, familyFriendly |-> FALSE,
         ageGroups |-> AgeGroups(0, 0, 0, 0, 0)],
        AmenityCounts(0, 0, 0, 0, 0, 0, 0, 0, 0, 0),
        [crimeRate |-> 60, safetyScore |-> 0],
        [walkabilityScore |-> 0, transitScore |-> 0, bikeScore |-> 0],
        LifestyleMetrics(0, 0, 0, 0, 0))

BaseNeighborhoods == {BestNeighborhood, TypicalNeighborhood, WorstNeighborhood}

\* a record whose sub-scores, for the factory default lifestyle profile and
\* a budget holding 45000, are 90, 60, 70, 50, 100, 40, 30 and 80
ScenarioBNeighborhood ==
    Neighborhood("scenarioB",
        [totalPopulation |-> 1000, medianIncome |-> 150000, familyFriendly |-> TRUE,
         ageGroups |-> AgeGroups(200, 300, 200, 200, 100)],
        AmenityCounts(3, 5, 0, 5, 5, 4, 2, 3, 3, 0),
        [crimeRate |-> 5, safetyScore |-> 81],
        [walkabilityScore |-> 70, transitScore |-> 70, bikeScore |-> 70],
        LifestyleMetrics(40, 0, 10, 15, 40))

\* a record with no safety group
NeighborhoodWithoutSafety ==
    [id |-> "nosafety",
     demographics |-> TypicalNeighborhood.demographics,
     amenities |-> TypicalNeighborhood.amenities,
     transportation |-> TypicalNeighborhood.transportation,
     lifestyle |-> TypicalNeighborhood.lifestyle]

\* each base record, and each base record with one attribute group replaced
NeighborhoodInputs ==
    UNION { {b}
            \cup {[b EXCEPT !.safety = s] : s \in SafetyOptions}
            \cup {[b EXCEPT !.transportation = t] : t \in TransportationOptions}
            \cup {[b EXCEPT !.demographics = d] : d \in DemographicsOptions}
            \cup {[b EXCEPT !.amenities = a] : a \in AmenitiesOptions}
            \cup {[b EXCEPT !.lifestyle = l] : l \in LifestyleOptions}
            : b \in BaseNeighborhoods }
    \cup {ScenarioBNeighborhood, NeighborhoodWithoutSafety}

\* the records the longer lists are drawn from
BatchPool ==
    BaseNeighborhoods
    \cup {[TypicalNeighborhood EXCEPT !.demographics.totalPopulation = 0]}

Weights(s, a, t, l, f, m, n, q) ==
    [safety |-> s, amenities |-> a, transportation |-> t, lifestyle |-> l,
     affordability |-> f, familyFriendly |-> m, nightlife |-> n, quietness |-> q]

PriorityOptions ==
    { Weights(5, 5, 5, 5, 5, 5, 5, 5),
      Weights(1, 1, 1, 1, 1, 1, 1, 1),
      Weights(10, 10, 10, 10, 10, 10, 10, 10),
      Weights(8, 7, 6, 7, 8, 5, 6, 5),
      Weights(10, 1, 1, 1, 1, 1, 1, 1),
      Weights(1, 1, 1, 1, 1, 1, 10, 1),
      Weights(1, 1, 1, 10, 1, 1, 1, 1),
      Weights(0, 0, 0, 0, 0, 0, 0, 0),
      Weights(0, 5, 5, 5, 5, 5, 5, 5),
      [amenities |-> 5, transportation |-> 5, lifestyle |-> 5, affordability |-> 5,
       familyFriendly |-> 5, nightlife |-> 5, quietness |-> 5] }

BudgetOptions ==
    { [min |-> 40000, max |-> 60000],
      [min |-> 30000, max |-> 50000],
      [min |-> 10000, max |-> 40000] }

UserLifestyle(a, v, s) ==
    [ageGroup |-> a, activityLevel |-> v, socialPreference |-> s,
     workStyle |-> "hybrid"]

\* the factory default profile, each enum value in turn, and one value
\* outside each enum
UserLifestyleOptions ==
    {UserLifestyle(a, "medium", "balanced") :
        a \in {"young", "family", "senior", "mixed", "retired"}}
    \cup {UserLifestyle("mixed", v, "balanced") : v \in {"low", "high", "extreme"}}
    \cup {UserLifestyle("mixed", "medium", s) :
            s \in {"introvert", "extrovert", "ambivert"}}
    \cup {UserLifestyle("family", "high", "extrovert")}

UserPreferences(b, w, l) ==
    [id |-> "user", budget |-> b, priorities |-> w, lifestyle |-> l]

\* a profile with no lifestyle group
PreferencesWithoutLifestyle ==
    [id |-> "user", budget |-> [min |-> 40000, max |-> 60000],
     priorities |-> Weights(5, 5, 5, 5, 5, 5, 5, 5)]

PreferenceInputs ==
    {UserPreferences(b, w, l) :
        b \in BudgetOptions, w \in PriorityOptions, l \in UserLifestyleOptions}
    \cup {PreferencesWithoutLifestyle}

RECURSIVE ListsUpTo(_, _)
\* the lists of at most k elements of S
ListsUpTo(S, k) ==
    IF k = 0 THEN {<< >>}
    ELSE LET shorter == ListsUpTo(S, k - 1)
         IN  shorter \cup {Append(l, x) : l \in shorter, x \in S}

\* the lists of one record, of any input record, and the lists of up to
\* MaxBatch records of the pool
NeighborhoodLists ==
    {<<n>> : n \in NeighborhoodInputs} \cup ListsUpTo(BatchPool, MaxBatch)

\* the JSON bodies: with both keys, and with one or both missing
RequestBodies ==
    {[preferences |-> p, neighborhoods |-> ns] :
        p \in PreferenceInputs, ns \in NeighborhoodLists}
    \cup {[preferences |-> p] : p \in {UserPreferences(b, Weights(5, 5, 5, 5, 5, 5, 5, 5),
                                          UserLifestyle("mixed", "medium", "balanced")) :
                                        b \in BudgetOptions}}
    \cup {[neighborhoods |-> ns] : ns \in ListsUpTo(BaseNeighborhoods, 1)}
    \cup {[timestamp |-> 0]}

None == [none |-> TRUE]

(***************************************************************************)
(* PreferenceService: the in-memory store of user preferences.  The Map is *)
(* a function whose domain is the set of user ids that have an entry.      *)
(***************************************************************************)
\* Map.get(userId) || null
getUserPreferences(store, userId) ==
    IF userId \in DOMAIN store THEN store[userId] ELSE None

getDefaultLocation ==
    [latitude |-> Num(407128, 10000), longitude |-> Num(-740060, 10000),
     city |-> "New York", state |-> "NY", zipCode |-> "10001"]

\* the record generateDefaultPreferences builds and stores
generateDefaultPreferences(userId) ==
    [ id          |-> userId,
      location    |-> getDefaultLocation,
      budget      |-> [min |-> 50000, max |-> 150000],
      priorities  |-> [safety |-> 8, amenities |-> 7, transportation |-> 6,
                       lifestyle |-> 7, affordability |-> 8, familyFriendly |-> 5,
                       nightlife |-> 6, quietness |-> 5],
      lifestyle   |-> [ageGroup |-> "mixed", activityLevel |-> "medium",
                       socialPreference |-> "balanced", workStyle |-> "hybrid"],
      mustHaves   |-> <<"Grocery store nearby", "Public transportation">>,
      dealBreakers |-> <<"High crime rate", "Poor school ratings">> ]

\* obj.key || ... for an object or array member: an absent key is undefined,
\* a present object or array (an empty one too) is truthy
hasMember(obj, key) == obj # None /\ key \in DOMAIN obj

\* obj?.group?.key for a number: 0 stands for undefined, both are falsy
numberMember(obj, group, key) ==
    IF hasMember(obj, group) /\ key \in DOMAIN obj[group] THEN obj[group][key]
    ELSE 0

\* obj?.group?.key for a string: "" stands for undefined, both are falsy
stringMember(obj, group, key) ==
    IF hasMember(obj, group) /\ key \in DOMAIN obj[group] THEN obj[group][key]
    ELSE ""

\* mergedObject that does not read the stored record
mergedObject_Fresh(preferences, existing, key, fallback) ==
    IF hasMember(preferences, key) THEN preferences[key] ELSE fallback

\* preferences.key || existing?.key || fallback
mergedObject(preferences, existing, key, fallback) ==
    IF hasMember(preferences, key) THEN preferences[key]
    ELSE IF hasMember(existing, key) THEN existing[key]
    ELSE fallback

\* mergedNumber with ?? in place of ||: a supplied 0 is taken
mergedNumber_Nullish(preferences, existing, group, key, fallback) ==
    IF hasMember(preferences, group) /\ key \in DOMAIN preferences[group]
    THEN preferences[group][key]
    ELSE IF numberMember(existing, group, key) # 0
    THEN numberMember(existing, group, key)
    ELSE fallback

\* preferences.group?.key || existing?.group?.key || fallback
mergedNumber(preferences, existing, group, key, fallback) ==
    IF numberMember(preferences, group, key) # 0
    THEN numberMember(preferences, group, key)
    ELSE IF numberMember(existing, group, key) # 0
    THEN numberMember(existing, group, key)
    ELSE fallback

mergedString(preferences, existing, group, key, fallback) ==
    IF stringMember(preferences, group, key) # ""
    THEN stringMember(preferences, group, key)
    ELSE IF stringMember(existing, group, key) # ""
    THEN stringMember(existing, group, key)
    ELSE fallback

\* the updatedPreferences record of saveUserPreferences
updatedPreferences(userId, preferences, existing) ==
    [ id          |-> userId,
      location    |-> mergedObject(preferences, existing, "location",
                                   getDefaultLocation),
      budget      |-> mergedObject(preferences, existing, "budget",
                                   [min |-> 50000, max |-> 150000]),
      priorities  |->
        [safety         |-> mergedNumber(preferences, existing, "priorities", "safety", 8),
         amenities      |-> mergedNumber(preferences, existing, "priorities", "amenities", 7),
         transportation |-> mergedNumber(preferences, existing, "priorities", "transportation", 6),
         lifestyle      |-> mergedNumber(preferences, existing, "priorities", "lifestyle", 7),
         affordability  |-> mergedNumber(preferences, existing, "priorities", "affordability", 8),
         familyFriendly |-> mergedNumber(preferences, existing, "priorities", "familyFriendly", 5),
         nightlife      |-> mergedNumber(preferences, existing, "priorities", "nightlife", 6),
         quietness      |-> mergedNumber(preferences, existing, "priorities", "quietness", 5)],
      lifestyle   |->
        [ageGroup         |-> mergedString(preferences, existing, "lifestyle", "ageGroup", "mixed"),
         activityLevel    |-> mergedString(preferences, existing, "lifestyle", "activityLevel", "medium"),
         socialPreference |-> mergedString(preferences, existing, "lifestyle", "socialPreference", "balanced"),
         workStyle        |-> mergedString(preferences, existing, "lifestyle", "workStyle", "hybrid")],
      mustHaves   |-> mergedObject(preferences, existing, "mustHaves", << >>),
      dealBreakers |-> mergedObject(preferences, existing, "dealBreakers", << >>) ]

\* Map.set(key, value)
mapSet(map, key, value) ==
    [k \in DOMAIN map \cup {key} |-> IF k = key THEN value ELSE map[k]]

\* Map.delete that removes nothing
mapDelete_Keep(map, key) == map

\* Map.delete(key)
mapDelete(map, key) == [k \in DOMAIN map \ {key} |-> map[k]]

\* Map.clear()
emptyMap == [k \in {} |-> None]

\* saveUserPreferences that writes the record over every entry
saveUserPreferences_Everywhere(store, userId, preferences) ==
    [k \in DOMAIN store \cup {userId} |->
        updatedPreferences(userId, preferences, getUserPreferences(store, userId))]

\* the store after saveUserPreferences(userId, preferences)
saveUserPreferences(store, userId, preferences) ==
    mapSet(store, userId,
           updatedPreferences(userId, preferences,
                              getUserPreferences(store, userId)))

(***************************************************************************)
(* DataService: the neighborhood cache.  Times are in milliseconds, as     *)
(* Date.now() gives them.                                                  *)
(***************************************************************************)
CACHE_TTL == 3600

\* the digits of x.toFixed(4): the magnitude rounded to ten-thousandths
\* (halves upwards) and the sign, which a negative number keeps even when
\* its digits are all zero
toFixed4(x) ==
    IF ~IsFinite(x) THEN [negative |-> FALSE, tenThousandths |-> x]
    ELSE LET g == GCD(10000, x.d)
         IN  [negative |-> Lt(x, I(0)),
              tenThousandths |->
                  MathRound(Num(Abs(x.n) * (10000 \div g), x.d \div g)).n]

\* `neighborhood_${latitude}_${longitude}`: the numbers print in full, so
\* the key is modelled by the pair of numbers
cacheKeyOf(location) == <<"neighborhood", location.latitude, location.longitude>>

\* `neighborhood_${latitude.toFixed(4)}_${longitude.toFixed(4)}`
generateNeighborhoodId(location) ==
    <<"neighborhood", toFixed4(location.latitude), toFixed4(location.longitude)>>

\* parseFloat of the digits toFixed(4) printed
parseFloatFixed4(digits) ==
    IF digits.negative THEN Num(-digits.tenThousandths, 10000)
    ELSE Num(digits.tenThousandths, 10000)

\* id.replace('neighborhood_', '').split('_'): the two coordinates of an id
\* that generateNeighborhoodId made
coordsOf(id) == SubSeq(id, 2, Len(id))

\* getFromCache with <= in place of <: an entry exactly as old as the TTL
\* is still served
getFromCache_Inclusive(entries, key, time) ==
    IF key \in DOMAIN entries
       /\ time - entries[key].timestamp <= CACHE_TTL * 1000
    THEN entries[key].data
    ELSE None

\* getFromCache: the data of an entry younger than the TTL, else null; a
\* stale entry stays in the Map
getFromCache(entries, key, time) ==
    IF key \in DOMAIN entries
       /\ time - entries[key].timestamp < CACHE_TTL * 1000
    THEN entries[key].data
    ELSE None

\* setCache: the entry is stamped with the time of the call
setCache(entries, key, data, time) ==
    mapSet(entries, key, [data |-> data, timestamp |-> time])

\* processNeighborhoodData: the record built for a location.  The figures
\* come from the external sources or from Math.random(); `figures` is the
\* outcome of those draws.
processNeighborhoodData(location, figures) ==
    [ id             |-> generateNeighborhoodId(location),
      location       |-> location,
      demographics   |-> figures.demographics,
      amenities      |-> figures.amenities,
      safety         |-> figures.safety,
      transportation |-> figures.transportation,
      lifestyle      |-> figures.lifestyle ]

(***************************************************************************)
(* Inputs of the whole-server specification.                               *)
(***************************************************************************)
\* the clients with a matching request in flight, and the callers of
\* getNeighborhoodData
Clients == {1, 2}
Callers == {1, 2}

\* the clock advances in steps of half the cache TTL, MaxTicks times
ClockStep == (CACHE_TTL * 1000) \div 2
MaxTicks == 2

\* two profiles that differ in weights, budget and lifestyle
ServerPreferences ==
    { UserPreferences([min |-> 40000, max |-> 60000],
                      Weights(5, 5, 5, 5, 5, 5, 5, 5),
                      UserLifestyle("mixed", "medium", "balanced")),
      UserPreferences([min |-> 10000, max |-> 40000],
                      Weights(10, 1, 1, 1, 1, 1, 1, 1),
                      UserLifestyle("family", "high", "extrovert")) }

\* two neighborhoods alone and in both orders
ServerLists ==
    { <<BestNeighborhood>>, <<WorstNeighborhood>>,
      <<BestNeighborhood, WorstNeighborhood>>,
      <<WorstNeighborhood, BestNeighborhood>> }

ServerBodies ==
    {[preferences |-> p, neighborhoods |-> ns] :
        p \in ServerPreferences, ns \in ServerLists}

ServerUserIds == {"default-user"}

\* bodies of POST /api/preferences: some weights and a lifestyle, and a
\* budget alone
ServerPreferenceBodies ==
    { [priorities |-> [safety |-> 10, nightlife |-> 0],
       lifestyle |-> [ageGroup |-> "family"]],
      [budget |-> [min |-> 10000, max |-> 40000]] }

ServerLocations == {[latitude |-> Num(407128, 10000), longitude |-> Num(-740060, 10000)]}

\* outcomes of the draws of processNeighborhoodData
ServerDraws == {BestNeighborhood, WorstNeighborhood}

(***************************************************************************)
(* NeighborhoodsPage: the filter of the listed neighborhoods.  A string is *)
(* the sequence of its characters.                                         *)
(***************************************************************************)
UpperCase ==
    <<"A", "B", "C", "D", "E", "F", "G", "H", "I", "J", "K", "L", "M",
      "N", "O", "P", "Q", "R", "S", "T", "U", "V", "W", "X", "Y", "Z">>

LowerCase ==
    <<"a", "b", "c", "d", "e", "f", "g", "h", "i", "j", "k", "l", "m",
      "n", "o", "p", "q", "r", "s", "t", "u", "v", "w", "x", "y", "z">>

\* String.prototype.toLowerCase
toLowerCase(str) ==
    [i \in DOMAIN str |->
        IF \E k \in DOMAIN UpperCase : UpperCase[k] = str[i]
        THEN LowerCase[CHOOSE k \in DOMAIN UpperCase : UpperCase[k] = str[i]]
        ELSE str[i]]

\* String.prototype.includes
includes(str, search) ==
    \E start \in 0..(Len(str) - Len(search)) :
        SubSeq(str, start + 1, start + Len(search)) = search

\* the callback of neighborhoods.filter
matchesFilters(neighborhood, searchTerm, selectedFilters) ==
    LET matchesSearch ==
            \/ includes(toLowerCase(neighborhood.name), toLowerCase(searchTerm))
            \/ /\ "city" \in DOMAIN neighborhood.location
               /\ includes(toLowerCase(neighborhood.location.city),
                           toLowerCase(searchTerm))
        matchesSafety ==
            neighborhood.safety.safetyScore >= selectedFilters.safetyScore
        matchesWalkability ==
            neighborhood.transportation.walkabilityScore
                >= selectedFilters.walkabilityScore
        matchesCrimeRate ==
            neighborhood.safety.crimeRate <= selectedFilters.maxCrimeRate
        totalAmenities == SumValues(neighborhood.amenities)
        matchesAmenities == totalAmenities >= selectedFilters.minAmenities
    IN  matchesSearch /\ matchesSafety /\ matchesWalkability
        /\ matchesCrimeRate /\ matchesAmenities

\* filteredNeighborhoods with the search term compared as typed
filteredNeighborhoods_CaseSensitive(neighborhoods, searchTerm, selectedFilters) ==
    SelectSeq(neighborhoods,
              LAMBDA n : /\ matchesFilters(n, << >>, selectedFilters)
                         /\ \/ includes(n.name, searchTerm)
                            \/ /\ "city" \in DOMAIN n.location
                               /\ includes(n.location.city, searchTerm))

\* Array.prototype.filter keeps the elements that pass, in their order
filteredNeighborhoods(neighborhoods, searchTerm, selectedFilters) ==
    SelectSeq(neighborhoods,
              LAMBDA n : matchesFilters(n, searchTerm, selectedFilters))

(***************************************************************************)
(* Inputs of the filter: listed neighborhoods with amenity totals 10, 40   *)
(* and 55, names and cities in mixed case, one record without a city; the  *)
(* search terms; the filter settings, one moved from its default at a time *)
(* to a value at or next to a value of the records.                        *)
(***************************************************************************)
\* the longest list of neighborhoods on the page
MaxListed == 3

Listed(name, location, safetyScore, crimeRate, walkabilityScore, amenities) ==
    [ name           |-> name,
      location       |-> location,
      safety         |-> [safetyScore |-> safetyScore, crimeRate |-> crimeRate],
      transportation |-> [walkabilityScore |-> walkabilityScore],
      amenities      |-> amenities ]

SohoNeighborhood ==
    Listed(<<"S", "o", "H", "o">>,
           [latitude |-> 40, longitude |-> -74, city |-> <<"N", "Y", "C">>],
           90, 5, 80, AmenityCounts(1, 1, 1, 1, 1, 1, 1, 1, 1, 1))

NohoNeighborhood ==
    Listed(<<"N", "o", "h", "o">>,
           [latitude |-> 41, longitude |-> -74],
           60, 40, 50, AmenityCounts(10, 5, 5, 4, 4, 2, 4, 2, 2, 2))

HullNeighborhood ==
    Listed(<<"H", "u", "l", "l">>,
           [latitude |-> 42, longitude |-> -74, city |-> <<"S", "o", "t", "o", "n">>],
           75, 20, 100, AmenityCounts(20, 10, 5, 5, 5, 2, 3, 1, 2, 2))

ListedPool == {SohoNeighborhood, NohoNeighborhood, HullNeighborhood}

SearchTerms ==
    { << >>, <<"s", "o">>, <<"S", "O">>, <<"h", "o">>, <<"n", "y">>,
      <<"N", "o">>, <<"z">> }

Filters(safetyScore, walkabilityScore, maxCrimeRate, minAmenities) ==
    [safetyScore |-> safetyScore, walkabilityScore |-> walkabilityScore,
     maxCrimeRate |-> maxCrimeRate, minAmenities |-> minAmenities]

\* the initial value of selectedFilters
DefaultFilters == Filters(0, 0, 100, 0)

FilterOptions ==
    {DefaultFilters}
    \cup {Filters(v, 0, 100, 0) : v \in {60, 61, 90, 91, 100}}
    \cup {Filters(0, v, 100, 0) : v \in {50, 51, 100}}
    \cup {Filters(0, 0, v, 0) : v \in {0, 4, 5, 39, 40}}
    \cup {Filters(0, 0, 100, v) : v \in {10, 11, 30, 40, 41, 55, 56}}
    \cup {Filters(70, 60, 30, 30)}

FilterCalls ==
    {[neighborhoods |-> ns, searchTerm |-> t, selectedFilters |-> f] :
        ns \in ListsUpTo(ListedPool, MaxListed), t \in SearchTerms,
        f \in FilterOptions}

(***************************************************************************)
(* Inputs of the calculators called on their own: the typical neighborhood *)
(* and the factory default profile, with the attributes the calculator     *)
(* reads drawn from ranges.                                                *)
(***************************************************************************)
\* the factory default lifestyle, uniform weights, a budget
DefaultProfile ==
    UserPreferences([min |-> 40000, max |-> 60000],
                    Weights(5, 5, 5, 5, 5, 5, 5, 5),
                    UserLifestyle("mixed", "medium", "balanced"))

\* the highest crime rate drawn
MaxCrimeRate == 60

Call(fn, preferences, neighborhood) ==
    [fn |-> fn, preferences |-> preferences, neighborhood |-> neighborhood]

\* calculateSafetyScore on a crime rate and a safety score
SafetyCall(c, s) ==
    Call("calculateSafetyScore", DefaultProfile,
         [TypicalNeighborhood EXCEPT
             !.safety = [crimeRate |-> c, safetyScore |-> s]])

\* the safety weight with the other seven weights all equal, or one of them
\* 10 and the rest 1
SafetyWeightings ==
    {Weights(s, v, v, v, v, v, v, v) : s \in 1..10, v \in 1..10}
    \cup {[Weights(s, 1, 1, 1, 1, 1, 1, 1) EXCEPT ![c] = 10] :
            s \in 1..10, c \in {Categories[k] : k \in 2..Len(Categories)}}

\* crime rates that give the full bonus, a part of it, and none
BonusCrimeRates == {0, 10, 25, 50}

\* calculateCompatibility on a base record at a crime rate and a safety score
CompatibilityCall(w, n, c, s) ==
    Call("calculateCompatibility",
         [DefaultProfile EXCEPT !.priorities = w],
         [n EXCEPT !.safety = [crimeRate |-> c, safetyScore |-> s]])

\* median incomes in steps of IncomeStep, whose 30% meets each budget limit
\* and each limit times 1.2 and 1.5 exactly
IncomeStep == 2500
MaxIncomeSteps == 130

AffordabilityBudgets ==
    { [min |-> 0, max |-> 30000], [min |-> 15000, max |-> 30000],
      [min |-> 30000, max |-> 30000], [min |-> 40000, max |-> 60000],
      [min |-> 60000, max |-> 40000], [min |-> 0, max |-> 0] }

AffordabilityCall(b, k) ==
    Call("calculateAffordabilityScore",
         [DefaultProfile EXCEPT !.budget = b],
         [TypicalNeighborhood EXCEPT !.demographics.medianIncome = k * IncomeStep])

\* one metric over 0..100 against values of the other at the ends, in the
\* middle and of both parities
MetricSamples == {0, 1, 50, 99}

\* each valid value of each lifestyle enum in turn, and one profile with
\* none of the defaults
LifestyleProfiles ==
    {UserLifestyle(a, "medium", "balanced") : a \in {"young", "family", "senior", "mixed"}}
    \cup {UserLifestyle("mixed", v, "balanced") : v \in {"low", "high"}}
    \cup {UserLifestyle("mixed", "medium", s) : s \in {"introvert", "extrovert"}}
    \cup {UserLifestyle("young", "high", "extrovert")}

\* populations whose age shares are whole and fractional percentages
LifestyleDemographics ==
    { TypicalNeighborhood.demographics,
      [totalPopulation |-> 3, medianIncome |-> 50000, familyFriendly |-> FALSE,
       ageGroups |-> AgeGroups(1, 1, 1, 0, 0)] }

\* calculateLifestyleScore on lifestyle metrics m
LifestyleCall(l, d, m) ==
    Call("calculateLifestyleScore",
         [DefaultProfile EXCEPT !.lifestyle = l],
         [TypicalNeighborhood EXCEPT !.demographics = d, !.lifestyle = m])

\* the most schools drawn: two more than the five that reach the cap
MaxSchools == 7

\* under-18 and 35-to-49 counts of populations of 3 and of 1000, within the
\* population and beyond it
FamilyDemographics ==
    {[totalPopulation |-> 3, medianIncome |-> 50000, familyFriendly |-> TRUE,
      ageGroups |-> AgeGroups(u, 0, a, 0, 0)] :
        u \in 0..3, a \in 0..3}
    \cup {[totalPopulation |-> 1000, medianIncome |-> 50000, familyFriendly |-> TRUE,
           ageGroups |-> AgeGroups(x[1], 0, x[2], 0, 0)] :
            x \in {<<0, 0>>, <<200, 250>>, <<500, 500>>, <<333, 0>>, <<0, 5>>,
                   <<15, 0>>, <<600, 500>>}}

FamilyCall(d, s, p, f) ==
    Call("calculateFamilyFriendlyScore", DefaultProfile,
         [TypicalNeighborhood EXCEPT
             !.demographics = d,
             !.amenities.schools = s,
             !.amenities.parks = p,
             !.lifestyle.familyActivities = f])

\* the highest lifestyle.nightlife drawn: past the 0..100 scale, so that with
\* the entertainment counts the noise factor passes 100
MaxNightlife == 110

\* amenities.entertainment counts: none, one, Scenario D's 20, and counts
\* that carry the noise factor to 100 and beyond
EntertainmentCounts == {0, 1, 20, 99, 100, 150}

\* amenities.bars counts, Scenario D's 10 among them
BarCounts == {0, 10, 40}

QuietnessCall(n, e, b) ==
    Call("calculateQuietnessScore", DefaultProfile,
         [TypicalNeighborhood EXCEPT
             !.lifestyle.nightlife = n,
             !.amenities.entertainment = e,
             !.amenities.bars = b])

(***************************************************************************)
(* The state of the server: the matching request of the single-client      *)
(* specification, and, for the specification of the whole server, one      *)
(* matching exchange per client, the preference store, the neighborhood    *)
(* cache, the clock and the getNeighborhoodData calls in progress; and,    *)
(* for the specifications of single functions, the call and its result.    *)
(***************************************************************************)
VARIABLES
    pc,        \* "idle", "received" (a request awaits the handler), "responded"
    request,   \* the body of the request in flight
    response,  \* the handler's response to it
    exchanges,          \* per client: [pc, request, response] of its matching request
    storedPreferences,  \* PreferenceService.preferences
    cache,              \* DataService.cache
    now,                \* Date.now()
    fetches,            \* per caller: [pc, location, result] of getNeighborhoodData
    call,      \* a call of a function on its own: the function and its arguments
    result     \* what the call returned, once it has

matchingVars == <<pc, request, response>>
serverVars == <<exchanges, storedPreferences, cache, now, fetches>>
functionVars == <<call, result>>
vars == <<pc, request, response, exchanges, storedPreferences, cache, now, fetches,
          call, result>>

Idle == [pc |-> "idle", request |-> None, response |-> None]
NotFetching == [pc |-> "idle", location |-> None, result |-> None]

Init ==
    /\ pc = "idle"
    /\ request = None
    /\ response = None
    /\ exchanges = [c \in Clients |-> Idle]
    /\ storedPreferences = emptyMap
    /\ cache = emptyMap
    /\ now = 0
    /\ fetches = [c \in Callers |-> NotFetching]
    /\ call = None
    /\ result = None

\* a client posts a body to /api/matching
ReceiveRequest ==
    /\ pc = "idle"
    /\ \E body \in RequestBodies : request' = body
    /\ pc' = "received"
    /\ UNCHANGED response
    /\ UNCHANGED serverVars
    /\ UNCHANGED functionVars

\* matchingRoutes.post('/') runs on the request
HandleRequest ==
    /\ pc = "received"
    /\ response' = matchingPost(request)
    /\ pc' = "responded"
    /\ UNCHANGED request
    /\ UNCHANGED serverVars
    /\ UNCHANGED functionVars

\* the response is delivered and the exchange is over
DeliverResponse ==
    /\ pc = "responded"
    /\ pc' = "idle"
    /\ request' = None
    /\ response' = None
    /\ UNCHANGED serverVars
    /\ UNCHANGED functionVars

Next == ReceiveRequest \/ HandleRequest \/ DeliverResponse

Spec == Init /\ [][Next]_vars

(***************************************************************************)
(* The whole server: the clients' matching requests are in flight          *)
(* together and are handled one at a time in any order, between calls of   *)
(* the preference routes and of getNeighborhoodData.                       *)
(***************************************************************************)
\* client c posts a body to /api/matching
PostMatching(c) ==
    /\ exchanges[c].pc = "idle"
    /\ \E body \in ServerBodies :
          exchanges' = [exchanges EXCEPT ![c] =
                           [pc |-> "received", request |-> body, response |-> None]]
    /\ UNCHANGED <<storedPreferences, cache, now, fetches>>
    /\ UNCHANGED matchingVars
    /\ UNCHANGED functionVars

\* matchingRoutes.post('/') runs on the request of client c: it reads the
\* body and nothing else, and writes the response and nothing else
HandleMatching(c) ==
    /\ exchanges[c].pc = "received"
    /\ exchanges' = [exchanges EXCEPT ![c] =
                        [pc |-> "responded", request |-> exchanges[c].request,
                         response |-> matchingPost(exchanges[c].request)]]
    /\ UNCHANGED <<storedPreferences, cache, now, fetches>>
    /\ UNCHANGED matchingVars
    /\ UNCHANGED functionVars

\* the response is delivered to client c
DeliverMatching(c) ==
    /\ exchanges[c].pc = "responded"
    /\ exchanges' = [exchanges EXCEPT ![c] = Idle]
    /\ UNCHANGED <<storedPreferences, cache, now, fetches>>
    /\ UNCHANGED matchingVars
    /\ UNCHANGED functionVars

\* preferenceRoutes.get: the stored preferences, or the defaults, which
\* generateDefaultPreferences stores
GetPreferences(userIds) ==
    /\ \E userId \in userIds :
          storedPreferences' =
              IF getUserPreferences(storedPreferences, userId) # None
              THEN storedPreferences
              ELSE mapSet(storedPreferences, userId,
                          generateDefaultPreferences(userId))
    /\ UNCHANGED <<exchanges, cache, now, fetches>>
    /\ UNCHANGED matchingVars
    /\ UNCHANGED functionVars

\* preferenceRoutes.post: saveUserPreferences on the body
PostPreferences(userIds, bodies) ==
    /\ \E userId \in userIds, body \in bodies :
          storedPreferences' = saveUserPreferences(storedPreferences, userId, body)
    /\ UNCHANGED <<exchanges, cache, now, fetches>>
    /\ UNCHANGED matchingVars
    /\ UNCHANGED functionVars

\* preferenceRoutes.delete: deleteUserPreferences
DeletePreferences(userIds) ==
    /\ \E userId \in userIds :
          storedPreferences' = mapDelete(storedPreferences, userId)
    /\ UNCHANGED <<exchanges, cache, now, fetches>>
    /\ UNCHANGED matchingVars
    /\ UNCHANGED functionVars

\* time passes
Tick ==
    /\ now + ClockStep <= MaxTicks * ClockStep
    /\ now' = now + ClockStep
    /\ UNCHANGED <<exchanges, storedPreferences, cache, fetches>>
    /\ UNCHANGED matchingVars
    /\ UNCHANGED functionVars

\* getNeighborhoodData up to its await: a fresh cache entry is returned, a
\* miss starts the fetches
BeginGetNeighborhoodData(caller, locations) ==
    /\ fetches[caller].pc = "idle"
    /\ \E location \in locations :
          LET cached == getFromCache(cache, cacheKeyOf(location), now)
          IN  fetches' = [fetches EXCEPT ![caller] =
                  IF cached # None
                  THEN [pc |-> "returned", location |-> location, result |-> cached]
                  ELSE [pc |-> "fetching", location |-> location, result |-> None]]
    /\ UNCHANGED <<exchanges, storedPreferences, cache, now>>
    /\ UNCHANGED matchingVars
    /\ UNCHANGED functionVars

\* getNeighborhoodData after its await: the record is built, cached under
\* the time of this step, and returned
FinishGetNeighborhoodData(caller, draws) ==
    /\ fetches[caller].pc = "fetching"
    /\ \E figures \in draws :
          LET location == fetches[caller].location
              neighborhood == processNeighborhoodData(location, figures)
          IN  /\ cache' = setCache(cache, cacheKeyOf(location), neighborhood, now)
              /\ fetches' = [fetches EXCEPT ![caller] =
                     [pc |-> "returned", location |-> location,
                      result |-> neighborhood]]
    /\ UNCHANGED <<exchanges, storedPreferences, now>>
    /\ UNCHANGED matchingVars
    /\ UNCHANGED functionVars

\* the caller takes the record
ReturnNeighborhoodData(caller) ==
    /\ fetches[caller].pc = "returned"
    /\ fetches' = [fetches EXCEPT ![caller] = NotFetching]
    /\ UNCHANGED <<exchanges, storedPreferences, cache, now>>
    /\ UNCHANGED matchingVars
    /\ UNCHANGED functionVars

ServerNext ==
    \/ \E c \in Clients : PostMatching(c)
    \/ \E c \in Clients : HandleMatching(c)
    \/ \E c \in Clients : DeliverMatching(c)
    \/ GetPreferences(ServerUserIds)
    \/ PostPreferences(ServerUserIds, ServerPreferenceBodies)
    \/ DeletePreferences(ServerUserIds)
    \/ Tick
    \/ BeginGetNeighborhoodData(1, ServerLocations)
    \/ FinishGetNeighborhoodData(1, ServerDraws)
    \/ ReturnNeighborhoodData(1)

ServerSpec == Init /\ [][ServerNext]_vars

(***************************************************************************)
(* The filter of NeighborhoodsPage on its own: the page renders with a     *)
(* list, a search term and filter settings, and computes the list it shows.*)
(***************************************************************************)
\* the initial state of the variables a specification does not use
ServerAtRest ==
    /\ pc = "idle"
    /\ request = None
    /\ response = None
    /\ exchanges = [c \in Clients |-> Idle]
    /\ storedPreferences = emptyMap
    /\ cache = emptyMap
    /\ now = 0
    /\ fetches = [c \in Callers |-> NotFetching]

FilterInit ==
    /\ ServerAtRest
    /\ call \in FilterCalls
    /\ result = None

\* the render computes filteredNeighborhoods
RenderFiltered ==
    /\ result = None
    /\ result' = [filteredNeighborhoods |->
                     filteredNeighborhoods(call.neighborhoods, call.searchTerm,
                                           call.selectedFilters)]
    /\ UNCHANGED call
    /\ UNCHANGED matchingVars
    /\ UNCHANGED serverVars

FilterNext == RenderFiltered

FilterSpec == FilterInit /\ [][FilterNext]_vars

(***************************************************************************)
(* The calculators of MatchingAlgorithm on their own: one call, of one     *)
(* function, on one pair of records.                                       *)
(***************************************************************************)
\* one call, drawn from the inputs of one of the calculators
ScoreInit ==
    /\ ServerAtRest
    /\ result = None
    /\ \/ \E c \in 0..MaxCrimeRate, s \in 0..MAX_SCORE :
              call = SafetyCall(c, s)
       \/ \E w \in SafetyWeightings, n \in BaseNeighborhoods,
              c \in BonusCrimeRates, s \in {70, 95} :
              call = CompatibilityCall(w, n, c, s)
       \/ \E b \in AffordabilityBudgets, k \in 0..MaxIncomeSteps :
              call = AffordabilityCall(b, k)
       \/ \E l \in LifestyleProfiles, d \in LifestyleDemographics,
              x \in 0..MAX_SCORE, y \in MetricSamples :
              \/ /\ l.socialPreference = "balanced" \/ l.ageGroup = "young"
                 /\ call = LifestyleCall(l, d, LifestyleMetrics(45, 28, x, y, 65))
              \/ /\ l.activityLevel = "medium" \/ l.ageGroup = "young"
                 /\ call = LifestyleCall(l, d, LifestyleMetrics(y, 28, 32, 55, x))
       \/ \E d \in FamilyDemographics, s \in 0..MaxSchools, p \in {0, 2, 8},
              f \in {0, 1, 5, 13, 100} :
              call = FamilyCall(d, s, p, f)
       \/ \E n \in 0..MaxNightlife, e \in EntertainmentCounts, b \in BarCounts :
              call = QuietnessCall(n, e, b)

\* the call of fn returns value
Returns(fn, value) ==
    /\ result = None
    /\ call.fn = fn
    /\ result' = [value |-> value]
    /\ UNCHANGED call
    /\ UNCHANGED matchingVars
    /\ UNCHANGED serverVars

CallSafetyScore ==
    Returns("calculateSafetyScore",
            calculateSafetyScore(call.preferences, call.neighborhood))

CallCompatibility ==
    Returns("calculateCompatibility",
            calculateCompatibility(call.preferences, call.neighborhood))

CallAffordabilityScore ==
    Returns("calculateAffordabilityScore",
            calculateAffordabilityScore(call.preferences, call.neighborhood))

CallLifestyleScore ==
    Returns("calculateLifestyleScore",
            calculateLifestyleScore(call.preferences, call.neighborhood))

CallFamilyFriendlyScore ==
    Returns("calculateFamilyFriendlyScore",
            calculateFamilyFriendlyScore(call.preferences, call.neighborhood))

CallQuietnessScore ==
    Returns("calculateQuietnessScore",
            calculateQuietnessScore(call.preferences, call.neighborhood))

ScoreNext ==
    \/ CallSafetyScore
    \/ CallCompatibility
    \/ CallAffordabilityScore
    \/ CallLifestyleScore
    \/ CallFamilyFriendlyScore
    \/ CallQuietnessScore

ScoreSpec == ScoreInit /\ [][ScoreNext]_vars

(***************************************************************************)
(* PreferenceService and the preference routes on their own: the static    *)
(* methods are called, and GET and DELETE /api/preferences/:userId are     *)
(* served, in any order.  call is the last call and result what it         *)
(* returned.                                                               *)
(***************************************************************************)
StoreUserIds == {"ann", "bob"}

BostonLocation ==
    [latitude |-> Num(423601, 10000), longitude |-> Num(-710589, 10000),
     city |-> "Boston", state |-> "MA", zipCode |-> "02101"]

\* a JSON object with no members
EmptyObject == [k \in {} |-> None]

\* Partial<UserPreferences> updates: no member; top-level members, an id
\* and arrays among them, an empty one too; single weights, one of them 0;
\* a single lifestyle field; and every weight and lifestyle field at once,
\* none at its default
PartialUpdates ==
    { EmptyObject,
      [id |-> "eve", budget |-> [min |-> 10000, max |-> 40000],
       dealBreakers |-> <<"No parking">>],
      [location |-> BostonLocation, mustHaves |-> << >>],
      [priorities |-> [safety |-> 10, nightlife |-> 0]],
      [lifestyle |-> [ageGroup |-> "family"]],
      [priorities |-> Weights(1, 2, 3, 4, 9, 10, 1, 2),
       lifestyle |-> [ageGroup |-> "young", activityLevel |-> "high",
                      socialPreference |-> "extrovert", workStyle |-> "remote"]] }

\* the updates of each user: every one for the first, and for the second,
\* whose record the calls for the first must leave alone, those that name
\* no weight and no lifestyle field
UpdatesOf(userId) ==
    IF userId = "ann" THEN PartialUpdates
    ELSE {preferences \in PartialUpdates :
              ~hasMember(preferences, "priorities")
              /\ ~hasMember(preferences, "lifestyle")}

PreferenceInit ==
    /\ ServerAtRest
    /\ call = None
    /\ result = None

\* a call on the store returns
StoreCall(frame, value, store) ==
    /\ call' = frame
    /\ result' = [value |-> value]
    /\ storedPreferences' = store
    /\ UNCHANGED <<exchanges, cache, now, fetches>>
    /\ UNCHANGED matchingVars

CallGetUserPreferences ==
    \E userId \in StoreUserIds :
        StoreCall([fn |-> "getUserPreferences", userId |-> userId],
                  getUserPreferences(storedPreferences, userId),
                  storedPreferences)

CallSaveUserPreferences ==
    \E userId \in StoreUserIds :
      \E preferences \in UpdatesOf(userId) :
        StoreCall([fn |-> "saveUserPreferences", userId |-> userId,
                   preferences |-> preferences],
                  updatedPreferences(userId, preferences,
                                     getUserPreferences(storedPreferences, userId)),
                  saveUserPreferences(storedPreferences, userId, preferences))

CallGenerateDefaultPreferences ==
    \E userId \in StoreUserIds :
        StoreCall([fn |-> "generateDefaultPreferences", userId |-> userId],
                  generateDefaultPreferences(userId),
                  mapSet(storedPreferences, userId,
                         generateDefaultPreferences(userId)))

\* Map.delete returns whether the key was there
CallDeleteUserPreferences ==
    \E userId \in StoreUserIds :
        StoreCall([fn |-> "deleteUserPreferences", userId |-> userId],
                  userId \in DOMAIN storedPreferences,
                  mapDelete(storedPreferences, userId))

CallClearAllPreferences ==
    StoreCall([fn |-> "clearAllPreferences"], None, emptyMap)

\* preferenceRoutes.get('/:userId'): the body of the response
GetPreferencesByUserId ==
    \E userId \in StoreUserIds :
        LET found == getUserPreferences(storedPreferences, userId)
            preferences == IF found # None THEN found
                           ELSE generateDefaultPreferences(userId)
        IN  StoreCall([fn |-> "GET /api/preferences/:userId", userId |-> userId],
                      [success |-> TRUE, data |-> preferences],
                      IF found # None THEN storedPreferences
                      ELSE mapSet(storedPreferences, userId,
                                  generateDefaultPreferences(userId)))

\* preferenceRoutes.delete('/:userId'): the body of the response
DeletePreferencesByUserId ==
    \E userId \in StoreUserIds :
        LET deleted == userId \in DOMAIN storedPreferences
        IN  StoreCall([fn |-> "DELETE /api/preferences/:userId", userId |-> userId],
                      [success |-> TRUE, data |-> [deleted |-> deleted],
                       message |-> IF deleted THEN "Preferences deleted successfully"
                                   ELSE "No preferences found to delete"],
                      mapDelete(storedPreferences, userId))

PreferenceNext ==
    \/ CallGetUserPreferences
    \/ CallSaveUserPreferences
    \/ CallGenerateDefaultPreferences
    \/ CallDeleteUserPreferences
    \/ CallClearAllPreferences
    \/ GetPreferencesByUserId
    \/ DeletePreferencesByUserId

PreferenceSpec == PreferenceInit /\ [][PreferenceNext]_vars

(***************************************************************************)
(* DataService on its own: two callers of getNeighborhoodData, whose calls *)
(* may overlap at the await, and the clock.                                *)
(***************************************************************************)
\* two places, so that an entry of one is there when the other is asked for
CacheLocations ==
    { [latitude |-> Num(407128, 10000), longitude |-> Num(-740060, 10000)],
      [latitude |-> Num(4236, 100), longitude |-> Num(-7106, 100)] }

CacheNext ==
    \/ Tick
    \/ \E caller \in Callers : BeginGetNeighborhoodData(caller, CacheLocations)
    \/ \E caller \in Callers : FinishGetNeighborhoodData(caller, ServerDraws)
    \/ \E caller \in Callers : ReturnNeighborhoodData(caller)

CacheSpec == Init /\ [][CacheNext]_vars

(***************************************************************************)
(* The neighborhood routes on their own: one client lists neighborhoods    *)
(* and then asks for one of the listed records by its id.  The handlers    *)
(* run one at a time, so that each await of getNeighborhoodData is over    *)
(* before the next step; request holds the handler's locals, and result    *)
(* the list the client received and the time it received it.               *)
(***************************************************************************)
\* the lat and lng of the list request
ListQueries == {[latitude |-> Num(405, 10), longitude |-> Num(-7425, 100)]}

\* the default radius of the list route
DefaultRadius == 5

\* numNeighborhoods is drawn from 3 up to this (the code draws up to 10)
MaxNeighborhoods == 3

\* the values of Math.random() in the two offsets of a turn: 0.5 leaves a
\* coordinate as it is, and 0.5006 moves it by 0.00003
OffsetDraws == {<<Num(1, 2), Num(1, 2)>>, <<Num(2503, 5000), Num(1, 2)>>}

\* location + (Math.random() - 0.5) * radius * 0.01
offsetBy(coordinate, random, radius) ==
    Add(coordinate, Mul(Mul(Sub(random, Num(1, 2)), I(radius)), Num(1, 100)))

\* getNeighborhoodData run to its end with no other call in between: the
\* fresh entry, or the record built from the draws and cached
neighborhoodDataOf(entries, location, figures, time) ==
    LET cached == getFromCache(entries, cacheKeyOf(location), time)
    IN  IF cached # None THEN cached
        ELSE processNeighborhoodData(location, figures)

cacheAfter(entries, location, figures, time) ==
    IF getFromCache(entries, cacheKeyOf(location), time) # None THEN entries
    ELSE setCache(entries, cacheKeyOf(location),
                  processNeighborhoodData(location, figures), time)

RouteFrame ==
    /\ UNCHANGED <<exchanges, storedPreferences, now, fetches>>
    /\ UNCHANGED call

\* GET /api/neighborhoods?lat=..&lng=..: the handler starts
ListNeighborhoods ==
    /\ pc = "idle"
    /\ \E location \in ListQueries, numNeighborhoods \in 3..MaxNeighborhoods :
          request' = [route |-> "GET /api/neighborhoods", location |-> location,
                      radius |-> DefaultRadius,
                      numNeighborhoods |-> numNeighborhoods,
                      neighborhoods |-> << >>]
    /\ pc' = "listing"
    /\ UNCHANGED <<response, cache, result>>
    /\ RouteFrame

\* one turn of the loop of the list route
ListNextNeighborhood ==
    /\ pc = "listing"
    /\ Len(request.neighborhoods) < request.numNeighborhoods
    /\ \E random \in OffsetDraws, figures \in ServerDraws :
          LET neighborhoodLocation ==
                  [latitude |-> offsetBy(request.location.latitude, random[1],
                                         request.radius),
                   longitude |-> offsetBy(request.location.longitude, random[2],
                                          request.radius)]
          IN  /\ request' = [request EXCEPT !.neighborhoods =
                     Append(@, neighborhoodDataOf(cache, neighborhoodLocation,
                                                  figures, now))]
              /\ cache' = cacheAfter(cache, neighborhoodLocation, figures, now)
    /\ UNCHANGED <<pc, response, result>>
    /\ RouteFrame

\* the list route responds
ListRespond ==
    /\ pc = "listing"
    /\ Len(request.neighborhoods) = request.numNeighborhoods
    /\ response' = [status |-> 200,
                    body |-> [success |-> TRUE, data |-> request.neighborhoods]]
    /\ pc' = "responded"
    /\ UNCHANGED <<request, cache, result>>
    /\ RouteFrame

\* the client receives a response, and keeps a list
ReceiveResponse ==
    /\ pc = "responded"
    /\ result' = IF request.route = "GET /api/neighborhoods"
                 THEN [listed |-> response.body.data, at |-> now]
                 ELSE result
    /\ pc' = "idle"
    /\ request' = None
    /\ response' = None
    /\ UNCHANGED cache
    /\ RouteFrame

\* GET /api/neighborhoods/:id with the id of a listed record
GetNeighborhoodById ==
    /\ pc = "idle"
    /\ result # None
    /\ \E i \in DOMAIN result.listed :
          request' = [route |-> "GET /api/neighborhoods/:id",
                      id |-> result.listed[i].id]
    /\ pc' = "getting"
    /\ UNCHANGED <<response, cache, result>>
    /\ RouteFrame

\* neighborhoodRoutes.get('/:id') runs on the request
HandleGetById ==
    /\ pc = "getting"
    /\ LET coords == coordsOf(request.id)
       IN  IF Len(coords) # 2
           THEN /\ response' = [status |-> 400,
                                body |-> [success |-> FALSE,
                                          error |-> "Invalid neighborhood ID format"]]
                /\ UNCHANGED cache
           ELSE \E figures \in ServerDraws :
                  LET location == [latitude |-> parseFloatFixed4(coords[1]),
                                   longitude |-> parseFloatFixed4(coords[2])]
                  IN  /\ response' =
                            [status |-> 200,
                             body |-> [success |-> TRUE,
                                       data |-> neighborhoodDataOf(cache, location,
                                                                   figures, now)]]
                      /\ cache' = cacheAfter(cache, location, figures, now)
    /\ pc' = "responded"
    /\ UNCHANGED <<request, result>>
    /\ RouteFrame

NeighborhoodNext ==
    \/ ListNeighborhoods
    \/ ListNextNeighborhood
    \/ ListRespond
    \/ ReceiveResponse
    \/ GetNeighborhoodById
    \/ HandleGetById
    \/ Tick

NeighborhoodSpec == Init /\ [][NeighborhoodNext]_vars

(***************************************************************************)
(* NeighborhoodsPage: the fetch of the list.  call is the state of the     *)
(* component (neighborhoods, loading, error), result is the view the       *)
(* render returns for it, request and response are the fetch in flight and *)
(* what came back, and pc is the position of fetchNeighborhoods.           *)
(***************************************************************************)
\* useState([]), useState(true), useState(null); an error that is not null
\* is a record holding the message
PageMounted == [neighborhoods |-> << >>, loading |-> TRUE, error |-> None]

\* the three returns of the component
viewOf(state) ==
    IF state.loading THEN "loading"
    ELSE IF state.error # None THEN "error"
    ELSE "list"

\* the lists the list route answers with: three neighborhoods or more
FetchedLists == {ns \in ListsUpTo(ListedPool, MaxListed) : Len(ns) >= 3}

\* what the awaited fetch and response.json() come to: the fetch rejects,
\* the body is the text of the rate limiter and json() throws, the list
\* route answers 500, or it answers the list
FetchOutcomes ==
    {[kind |-> "rejected"], [kind |-> "text", status |-> 429]}
    \cup {[kind |-> "json", status |-> 500,
           body |-> [success |-> FALSE,
                     error |-> "Failed to fetch neighborhoods"]]}
    \cup {[kind |-> "json", status |-> 200,
           body |-> [success |-> TRUE, data |-> ns, count |-> Len(ns)]] :
             ns \in FetchedLists}

\* the try, catch and finally of fetchNeighborhoods once the fetch settles
settled(state, outcome) ==
    LET after ==
            IF outcome.kind # "json"
            THEN [state EXCEPT !.error =
                     [message |-> "Failed to connect to server"]]
            ELSE IF outcome.body.success
            THEN [state EXCEPT !.neighborhoods = outcome.body.data]
            ELSE [state EXCEPT !.error =
                     IF hasMember(outcome.body, "error")
                     THEN [message |-> outcome.body.error]
                     ELSE [message |-> "Failed to fetch neighborhoods"]]
    IN  [after EXCEPT !.loading = FALSE]

PageInit ==
    /\ ServerAtRest
    /\ call = PageMounted
    /\ result = [view |-> viewOf(PageMounted)]

PageFrame ==
    /\ UNCHANGED serverVars

\* fetchNeighborhoods up to its await: called by the effect of the first
\* render, and by the Try Again button of the error view
FetchNeighborhoods ==
    /\ pc = "idle"
    /\ \/ call.loading
       \/ result.view = "error"
    /\ call' = [call EXCEPT !.loading = TRUE]
    /\ result' = [view |-> viewOf(call')]
    /\ request' = [method |-> "GET", route |-> "/api/neighborhoods"]
    /\ response' = None
    /\ pc' = "fetching"
    /\ PageFrame

\* the fetch settles and fetchNeighborhoods runs to its end
FetchSettles ==
    /\ pc = "fetching"
    /\ \E outcome \in FetchOutcomes :
          /\ response' = outcome
          /\ call' = settled(call, outcome)
    /\ result' = [view |-> viewOf(call')]
    /\ request' = None
    /\ pc' = "idle"
    /\ PageFrame

PageNext ==
    \/ FetchNeighborhoods
    \/ FetchSettles

PageSpec == PageInit /\ [][PageNext]_vars

(***************************************************************************)
(* MatchingPage and the server: the page loads the preferences of the demo *)
(* user from GET /api/preferences and posts to /api/matching.  call is the *)
(* state of the component, request and response are the exchange in        *)
(* flight, and the preferences page saves to the store in between.         *)
(***************************************************************************)
\* the user id of the routes without :userId
DemoUserId == "default-user"

\* useState(null), useState([]), useState(false), useState(null),
\* useState(false)
MatchingPageMounted ==
    [preferences |-> None, matchingResults |-> << >>, loading |-> FALSE,
     error |-> None, hasPreferences |-> FALSE]

MatchingPageInit ==
    /\ pc = "mounted"
    /\ request = None
    /\ response = None
    /\ exchanges = [c \in Clients |-> Idle]
    /\ storedPreferences = emptyMap
    /\ cache = emptyMap
    /\ now = 0
    /\ fetches = [c \in Callers |-> NotFetching]
    /\ call = MatchingPageMounted
    /\ result = None

\* the effect of the first render: checkExistingPreferences up to its await
CheckExistingPreferences ==
    /\ pc = "mounted"
    /\ request' = [method |-> "GET", route |-> "/api/preferences"]
    /\ pc' = "checking"
    /\ UNCHANGED response
    /\ UNCHANGED serverVars
    /\ UNCHANGED functionVars

\* preferenceRoutes.get('/') answers the check
AnswerCheck ==
    /\ pc = "checking"
    /\ response = None
    /\ LET stored == getUserPreferences(storedPreferences, DemoUserId)
           preferences == IF stored # None THEN stored
                          ELSE generateDefaultPreferences(DemoUserId)
       IN  /\ storedPreferences' = mapSet(storedPreferences, DemoUserId, preferences)
           /\ response' = [status |-> 200, success |-> TRUE, data |-> preferences]
    /\ UNCHANGED <<pc, request>>
    /\ UNCHANGED <<exchanges, cache, now, fetches>>
    /\ UNCHANGED functionVars

\* checkExistingPreferences after its awaits
ReceivePreferences ==
    /\ pc = "checking"
    /\ response # None
    /\ call' = IF response.success /\ response.data # None
               THEN [call EXCEPT !.preferences = response.data,
                                 !.hasPreferences = TRUE]
               ELSE call
    /\ pc' = "idle"
    /\ request' = None
    /\ response' = None
    /\ UNCHANGED result
    /\ UNCHANGED serverVars

\* the fetch of checkExistingPreferences rejects: the catch logs
CheckFails ==
    /\ pc = "checking"
    /\ response = None
    /\ pc' = "idle"
    /\ request' = None
    /\ UNCHANGED response
    /\ UNCHANGED serverVars
    /\ UNCHANGED functionVars

\* handleFindMatches up to its await; the body is JSON.stringify(preferences)
HandleFindMatches ==
    /\ pc = "idle"
    /\ ~call.loading
    /\ IF call.preferences = None
       THEN /\ call' = [call EXCEPT !.error =
                           [message |-> "Please set your preferences first"]]
            /\ UNCHANGED matchingVars
       ELSE /\ call' = [call EXCEPT !.loading = TRUE, !.error = None]
            /\ request' = call.preferences
            /\ pc' = "received"
            /\ UNCHANGED response
    /\ UNCHANGED result
    /\ UNCHANGED serverVars

\* handleFindMatches after its awaits
ReceiveMatches ==
    /\ pc = "responded"
    /\ LET after ==
               IF response.success
               THEN [call EXCEPT !.matchingResults = response.data]
               ELSE [call EXCEPT !.error =
                        IF hasMember(response, "error")
                        THEN [message |-> response.error]
                        ELSE [message |-> "Failed to find matches"]]
       IN  call' = [after EXCEPT !.loading = FALSE]
    /\ pc' = "idle"
    /\ request' = None
    /\ response' = None
    /\ UNCHANGED result
    /\ UNCHANGED serverVars

MatchingPageNext ==
    \/ CheckExistingPreferences
    \/ AnswerCheck
    \/ ReceivePreferences
    \/ CheckFails
    \/ HandleFindMatches
    \/ HandleRequest
    \/ ReceiveMatches
    \/ PostPreferences({DemoUserId}, PartialUpdates)

MatchingPageSpec == MatchingPageInit /\ [][MatchingPageNext]_vars

(***************************************************************************)
(* Properties.  They are stated on the state in which the handler has      *)
(* answered the request in flight.                                         *)
(***************************************************************************)
\* the handler has answered 200 with one result per neighborhood
Scored == pc = "responded" /\ response.status = 200

\* the i-th neighborhood of the request in flight
nbhd(i) == request.neighborhoods[i]

\* the records for which the scoring contract is stated: the eight weights
\* in 1..10, an ordered budget, metrics in 0..100, non-negative amenity
\* counts, a positive population and age buckets within it
ValidPreferences(p) ==
    /\ DOMAIN p.priorities = {Categories[k] : k \in 1..Len(Categories)}
    /\ \A c \in DOMAIN p.priorities : p.priorities[c] \in 1..10
    /\ p.budget.min <= p.budget.max

ValidNeighborhood(n) ==
    /\ n.safety.safetyScore \in 0..100
    /\ n.safety.crimeRate \in 0..100
    /\ \A f \in DOMAIN n.transportation : n.transportation[f] \in 0..100
    /\ \A f \in DOMAIN n.lifestyle : n.lifestyle[f] \in 0..100
    /\ \A f \in DOMAIN n.amenities : n.amenities[f] >= 0
    /\ n.demographics.totalPopulation > 0
    /\ \A f \in DOMAIN n.demographics.ageGroups : n.demographics.ageGroups[f] >= 0
    /\ SumValues(n.demographics.ageGroups) <= n.demographics.totalPopulation

\* x is an integer between 0 and 100
InScoreRange(x) == IsInteger(x) /\ 0 <= x.n /\ x.n <= 100

\* C1: every valid preferences/neighborhood pair is scored with an integer
\* between 0 and 100.
C1_ValidScoreInRange ==
    Scored =>
        \A i \in DOMAIN response.data :
            ValidPreferences(request.preferences) /\ ValidNeighborhood(nbhd(i))
                => InScoreRange(response.data[i].compatibilityScore)

\* C1 witness: a valid pair has been scored, and scored 90 or more.
C1_Witness ==
    /\ Scored
    /\ \E i \in DOMAIN response.data :
          /\ ValidPreferences(request.preferences)
          /\ ValidNeighborhood(nbhd(i))
          /\ response.data[i].compatibilityScore.n >= 90

\* a neighborhood that is valid but for lifestyle metrics above 100
OverRangeLifestyle(n) ==
    /\ ValidNeighborhood([n EXCEPT !.lifestyle = LifestyleMetrics(0, 0, 0, 0, 0)])
    /\ \A f \in DOMAIN n.lifestyle : n.lifestyle[f] >= 0
    /\ \E f \in DOMAIN n.lifestyle : n.lifestyle[f] > 100

\* C2: when a lifestyle metric exceeds 100 the overall score is clamped and
\* still lies between 0 and 100.
C2_OverRangeClamped ==
    Scored =>
        \A i \in DOMAIN response.data :
            ValidPreferences(request.preferences) /\ OverRangeLifestyle(nbhd(i))
                => InScoreRange(response.data[i].compatibilityScore)

\* C3: for a neighborhood of population 0 the age-group compatibility of
\* the age groups young, family and senior and the population term of the
\* family-friendliness sub-score are 0, and the overall score is finite.
C3_ZeroPopulationDefined ==
    Scored =>
        \A i \in DOMAIN response.data :
            nbhd(i).demographics.totalPopulation = 0 =>
                /\ IsFinite(response.data[i].compatibilityScore)
                /\ IsFinite(calculateFamilyFriendlyScore(request.preferences, nbhd(i)))
                /\ request.preferences.lifestyle.ageGroup \in {"young", "family", "senior"}
                     => calculateAgeGroupCompatibility(
                            request.preferences.lifestyle.ageGroup,
                            nbhd(i).demographics) = I(0)

\* C4: when the weights sum to 0 the score is still a finite number.
C4_ZeroWeightDefined ==
    Scored =>
        \A i \in DOMAIN response.data :
            totalWeightOf(request.preferences.priorities) = 0
            /\ ValidNeighborhood(nbhd(i))
                => IsFinite(response.data[i].compatibilityScore)

RECURSIVE defaultedSum(_, _, _)
\* the sum of score * (weight || 5) over the categories from the k-th on
defaultedSum(scores, weights, k) ==
    IF k > Len(Categories) THEN I(0)
    ELSE Add(Mul(scores[Categories[k]], I(weightOrDefault(weights, Categories[k]))),
             defaultedSum(scores, weights, k + 1))

RECURSIVE defaultedTotal(_, _)
\* the sum of (weight || 5) over the categories from the k-th on
defaultedTotal(weights, k) ==
    IF k > Len(Categories) THEN 0
    ELSE weightOrDefault(weights, Categories[k]) + defaultedTotal(weights, k + 1)

\* round(sum(score_i * w_i) / sum(w_i)) over the defaulted weights w_i
defaultedAggregate(scores, weights) ==
    MathRound(Div(defaultedSum(scores, weights, 1), I(defaultedTotal(weights, 1))))

\* C5: the score is the weighted mean over the defaulted weights, a falsy
\* weight counting as 5 in the numerator and in the total weight alike.
C5_DefaultedWeightedMean ==
    Scored =>
        \A i \in DOMAIN response.data :
            ValidNeighborhood(nbhd(i)) =>
                response.data[i].compatibilityScore =
                    defaultedAggregate(subScores(request.preferences, nbhd(i)),
                                       request.preferences.priorities)

RECURSIVE plainSum(_, _)
\* the sum of the sub-scores from the k-th category on
plainSum(scores, k) ==
    IF k > Len(Categories) THEN I(0)
    ELSE Add(scores[Categories[k]], plainSum(scores, k + 1))

\* the unweighted mean of the eight sub-scores
unweightedMean(scores) == Div(plainSum(scores, 1), I(Len(Categories)))

UniformFive == Weights(5, 5, 5, 5, 5, 5, 5, 5)

ScenarioB ==
    [safety |-> I(90), amenities |-> I(60), transportation |-> I(70),
     lifestyle |-> I(50), affordability |-> I(100), familyFriendly |-> I(40),
     nightlife |-> I(30), quietness |-> I(80)]

\* the sub-scores of the i-th neighborhood are those of scenario B
IsScenarioB(i) == subScores(request.preferences, nbhd(i)) = ScenarioB

\* C6 as stated: with all eight weights 5 the score is the unweighted mean
\* of the eight sub-scores, rounded, and the sub-scores 90, 60, 70, 50, 100,
\* 40, 30, 80 give 60.
C6_UniformIsMean_Original ==
    Scored /\ request.preferences.priorities = UniformFive =>
        \A i \in DOMAIN response.data :
            /\ response.data[i].compatibilityScore =
                   MathRound(unweightedMean(subScores(request.preferences, nbhd(i))))
            /\ IsScenarioB(i) => response.data[i].compatibilityScore = I(60)

\* C6 (amended): with all eight weights 5 the score is the unweighted mean
\* of the eight sub-scores, rounded, and the sub-scores 90, 60, 70, 50, 100,
\* 40, 30, 80 give 65.
C6_UniformIsMean ==
    Scored /\ request.preferences.priorities = UniformFive =>
        \A i \in DOMAIN response.data :
            /\ response.data[i].compatibilityScore =
                   MathRound(unweightedMean(subScores(request.preferences, nbhd(i))))
            /\ IsScenarioB(i) => response.data[i].compatibilityScore = I(65)

\* C6 witness: the neighborhood of scenario B has been scored under uniform
\* weights.
C6_Witness ==
    /\ Scored
    /\ request.preferences.priorities = UniformFive
    /\ \E i \in DOMAIN response.data : IsScenarioB(i)

\* a pair scored under uniform weights whose mean is not an integer, so
\* that the rounding decides the score
C6_RoundingCase ==
    /\ Scored
    /\ request.preferences.priorities = UniformFive
    /\ \E i \in DOMAIN response.data :
          LET mean == unweightedMean(subScores(request.preferences, nbhd(i)))
          IN  IsFinite(mean) /\ ~IsInteger(mean)

\* the closed sets of the lifestyle enums
AgeGroupEnum == {"young", "family", "senior", "mixed"}

ActivityLevelEnum == {"low", "medium", "high"}

SocialPreferenceEnum == {"introvert", "extrovert", "balanced"}

\* a body with a required field missing or an enum value outside its set
InvalidBody(body) ==
    \/ ~({"preferences", "neighborhoods"} \subseteq DOMAIN body)
    \/ /\ {"preferences", "neighborhoods"} \subseteq DOMAIN body
       /\ \/ ~(PreferenceGroups \subseteq DOMAIN body.preferences)
          \/ \E i \in 1..Len(body.neighborhoods) :
                ~(NeighborhoodGroups \subseteq DOMAIN body.neighborhoods[i])
          \/ /\ "lifestyle" \in DOMAIN body.preferences
             /\ \/ body.preferences.lifestyle.ageGroup \notin AgeGroupEnum
                \/ body.preferences.lifestyle.activityLevel \notin ActivityLevelEnum
                \/ body.preferences.lifestyle.socialPreference
                       \notin SocialPreferenceEnum

\* C8: a request with a required field missing or an enum value outside
\* its closed set is rejected: the response reports no success and carries
\* no result.
C8_InvalidRejected ==
    pc = "responded" /\ InvalidBody(request) =>
        ~response.success /\ "data" \notin DOMAIN response

\* C9: the response to a list of N neighborhoods holds N results, the i-th
\* carrying the i-th neighborhood unchanged, its compatibility score and
\* the three lists generated for it.
C9_OneResultPerNeighborhood ==
    Scored =>
        /\ Len(response.data) = Len(request.neighborhoods)
        /\ \A i \in 1..Len(request.neighborhoods) :
              /\ response.data[i].neighborhood = nbhd(i)
              /\ response.data[i].compatibilityScore =
                     calculateCompatibility(request.preferences, nbhd(i))
              /\ response.data[i].matchReasons =
                     generateMatchReasons(request.preferences, nbhd(i))
              /\ response.data[i].potentialConcerns =
                     generatePotentialConcerns(request.preferences, nbhd(i))
              /\ response.data[i].recommendations =
                     generateRecommendations(request.preferences, nbhd(i))

\* C9 witness: a list of two different neighborhoods has been answered
\* with two different results.
C9_Witness ==
    /\ Scored
    /\ Len(request.neighborhoods) >= 2
    /\ nbhd(1) # nbhd(2)
    /\ response.data[1].compatibilityScore # response.data[2].compatibilityScore

\* the texts of the rules whose condition holds, in the order of the rules
firing(rules) ==
    LET held == SelectSeq(rules, LAMBDA r : r.cond)
    IN  [k \in 1..Len(held) |-> held[k].text]

\* the sum of the ten amenity counts
amenityTotal(a) ==
    a.restaurants + a.cafes + a.bars + a.groceryStores + a.parks + a.gyms
    + a.schools + a.hospitals + a.shoppingCenters + a.entertainment

reasonRules(p, n) ==
    << [cond |-> n.safety.safetyScore > 80, text |-> "Excellent safety ratings"],
       [cond |-> amenityTotal(n.amenities) > 30, text |-> "Abundant local amenities"],
       [cond |-> n.transportation.walkabilityScore > 70,
        text |-> "Highly walkable neighborhood"],
       [cond |-> p.lifestyle.ageGroup = "family" /\ n.demographics.familyFriendly,
        text |-> "Family-friendly community"] >>

\* medianIncome * 0.3 > budget.max, in integers
concernRules(p, n) ==
    << [cond |-> n.safety.crimeRate > 30, text |-> "Higher than average crime rate"],
       [cond |-> 3 * n.demographics.medianIncome > 10 * p.budget.max,
        text |-> "May exceed your budget range"],
       [cond |-> n.transportation.walkabilityScore < 30,
        text |-> "Limited walkability"] >>

recommendationRules(p, n) ==
    << [cond |-> n.transportation.walkabilityScore < 50,
        text |-> "Consider getting a car or using ride-sharing services"],
       [cond |-> n.safety.safetyScore < 70,
        text |-> "Research specific safety measures and local crime patterns"],
       [cond |-> p.lifestyle.activityLevel = "high"
                 /\ n.lifestyle.outdoorActivities < 50,
        text |-> "Look for nearby parks and recreational facilities"] >>

\* C10: each of the three lists of a result holds exactly the texts of its
\* rules whose condition holds, once each and in the order of the rules.
C10_ListsAreFiringRules ==
    Scored =>
        \A i \in DOMAIN response.data :
            /\ response.data[i].matchReasons =
                   firing(reasonRules(request.preferences, nbhd(i)))
            /\ response.data[i].potentialConcerns =
                   firing(concernRules(request.preferences, nbhd(i)))
            /\ response.data[i].recommendations =
                   firing(recommendationRules(request.preferences, nbhd(i)))

\* C10 witness: one response in which all four reasons fire for one
\* neighborhood, and two concerns and all three recommendations for another.
C10_Witness ==
    /\ Scored
    /\ \E i, j \in DOMAIN response.data :
          /\ Len(response.data[i].matchReasons) = 4
          /\ Len(response.data[j].potentialConcerns) = 2
          /\ Len(response.data[j].recommendations) = 3

(***************************************************************************)
(* The explanation lists and the priority weights.                         *)
(***************************************************************************)
\* the preferences with their priority weights replaced by w
withPriorities(preferences, w) == [preferences EXCEPT !.priorities = w]

\* C11: the three explanation lists of a result do not depend on the
\* priority weights or on the aggregate score: a second call of
\* generateMatchingResult on the same neighborhood, with preferences that
\* differ from the first only in their priorities, returns the same
\* matchReasons, potentialConcerns and recommendations.
C11_ListsIgnorePriorities ==
    Scored =>
        \A i \in DOMAIN response.data : \A w \in PriorityOptions :
            LET second == generateMatchingResult(
                              withPriorities(request.preferences, w), nbhd(i))
            IN  /\ second.matchReasons = response.data[i].matchReasons
                /\ second.potentialConcerns = response.data[i].potentialConcerns
                /\ second.recommendations = response.data[i].recommendations

\* C11 witness: a scored neighborhood with a reason, a concern and a
\* recommendation, whose score is 50 or more under the weights of the
\* request and less than 50 under other weights.
C11_Witness ==
    /\ Scored
    /\ \E i \in DOMAIN response.data : \E w \in PriorityOptions :
          LET second == generateMatchingResult(
                            withPriorities(request.preferences, w), nbhd(i))
          IN  /\ response.data[i].matchReasons # << >>
              /\ response.data[i].potentialConcerns # << >>
              /\ response.data[i].recommendations # << >>
              /\ Ge(response.data[i].compatibilityScore, I(50))
              /\ Lt(second.compatibilityScore, I(50))

(***************************************************************************)
(* Scoring and the shared state of the server.                             *)
(***************************************************************************)
\* client c has been answered 200
Answered(c) == exchanges[c].pc = "responded" /\ exchanges[c].response.status = 200

\* the MatchingResult of a neighborhood scored alone: the one result of a
\* request that holds only this neighborhood
scoredAlone(preferences, neighborhood) ==
    matchingPost([preferences |-> preferences,
                  neighborhoods |-> <<neighborhood>>]).data[1]

\* each result of an answered request is the result of its neighborhood
\* scored alone, and two answered requests with the same preferences agree
\* on every neighborhood they share, wherever it stands in their lists
ResultsAsAlone ==
    /\ \A c \in Clients :
          Answered(c) =>
              \A i \in DOMAIN exchanges[c].response.data :
                  exchanges[c].response.data[i] =
                      scoredAlone(exchanges[c].request.preferences,
                                  exchanges[c].request.neighborhoods[i])
    /\ \A c, d \in Clients :
          ( /\ Answered(c) /\ Answered(d)
            /\ exchanges[c].request.preferences = exchanges[d].request.preferences )
          => \A i \in DOMAIN exchanges[c].response.data :
             \A j \in DOMAIN exchanges[d].response.data :
                 exchanges[c].request.neighborhoods[i] =
                     exchanges[d].request.neighborhoods[j]
                 => exchanges[c].response.data[i] = exchanges[d].response.data[j]

\* a step that answers the request of a client changes neither the request,
\* nor the exchange of another client, nor the preference store, nor the
\* neighborhood cache
ScoringChangesNothingElse ==
    \A c \in Clients :
        (exchanges[c].pc = "received" /\ exchanges'[c].pc = "responded")
        => /\ exchanges'[c].request = exchanges[c].request
           /\ \A d \in Clients \ {c} : exchanges'[d] = exchanges[d]
           /\ storedPreferences' = storedPreferences
           /\ cache' = cache

\* C12: scoring is stateless and order-independent.  With the clients'
\* requests handled in any order, between any calls that write the
\* preference store and the neighborhood cache, every neighborhood gets the
\* MatchingResult it gets when scored alone, and a scoring step changes
\* neither its input nor the store nor the cache.
C12_StatelessScoring ==
    /\ []ResultsAsAlone
    /\ [][ScoringChangesNothingElse]_vars

\* C12 witness: two clients have been answered for the same two
\* neighborhoods in opposite orders and under different preferences, while
\* the store holds preferences and the cache holds a record.
C12_Witness ==
    /\ Answered(1) /\ Answered(2)
    /\ exchanges[1].request.neighborhoods = <<BestNeighborhood, WorstNeighborhood>>
    /\ exchanges[2].request.neighborhoods = <<WorstNeighborhood, BestNeighborhood>>
    /\ exchanges[1].request.preferences # exchanges[2].request.preferences
    /\ exchanges[2].response.data[1].recommendations # << >>
    /\ DOMAIN storedPreferences # {}
    /\ DOMAIN cache # {}

(***************************************************************************)
(* The filter of the neighborhoods page.                                   *)
(***************************************************************************)
\* the page has computed the list it shows
Filtered == result # None /\ "filteredNeighborhoods" \in DOMAIN result

\* the four numeric conditions of the filter on a listed neighborhood
withinFilters(n, f) ==
    /\ n.safety.safetyScore >= f.safetyScore
    /\ n.transportation.walkabilityScore >= f.walkabilityScore
    /\ n.safety.crimeRate <= f.maxCrimeRate
    /\ amenityTotal(n.amenities) >= f.minAmenities

\* str contains sub as written
containsExactly(str, sub) ==
    \E a, b \in 0..Len(str) :
        a + Len(sub) = b /\ \A k \in 1..Len(sub) : str[a + k] = sub[k]

\* the same letter, in either case
sameLetter(x, y) ==
    \/ x = y
    \/ \E k \in DOMAIN UpperCase :
          {x, y} = {UpperCase[k], LowerCase[k]}

\* str contains sub, letter case apart
containsIgnoringCase(str, sub) ==
    \E a, b \in 0..Len(str) :
        a + Len(sub) = b /\ \A k \in 1..Len(sub) : sameLetter(str[a + k], sub[k])

\* shown holds exactly the elements of listed at the positions in kept, in
\* the order of listed
IsSelection(shown, listed, kept) ==
    /\ Len(shown) = Cardinality(kept)
    /\ \A i \in kept :
          shown[Cardinality({j \in kept : j <= i})] = listed[i]

\* the amenity totals of a list
totalsOf(listed) == [i \in DOMAIN listed |-> amenityTotal(listed[i].amenities)]

\* C13 as stated: the filter keeps, in their order, exactly the neighborhoods
\* within the four filter settings whose name or city contains the search
\* term.
C13_FilterRetains_Original ==
    Filtered =>
        IsSelection(result.filteredNeighborhoods, call.neighborhoods,
            {i \in DOMAIN call.neighborhoods :
                LET n == call.neighborhoods[i]
                IN  /\ withinFilters(n, call.selectedFilters)
                    /\ \/ containsExactly(n.name, call.searchTerm)
                       \/ /\ "city" \in DOMAIN n.location
                          /\ containsExactly(n.location.city, call.searchTerm)})

\* C13: the filter keeps, in their order, exactly the neighborhoods with
\* safetyScore >= the minimum safety, walkabilityScore >= the minimum
\* walkability, crimeRate <= the maximum crime rate, the total of the ten
\* amenity counts >= minAmenities, and a name or city that contains the
\* search term, letter case apart; of amenity totals 10, 40 and 55,
\* minAmenities = 30 alone keeps the last two.
C13_FilterRetains ==
    Filtered =>
        /\ IsSelection(result.filteredNeighborhoods, call.neighborhoods,
              {i \in DOMAIN call.neighborhoods :
                  LET n == call.neighborhoods[i]
                  IN  /\ withinFilters(n, call.selectedFilters)
                      /\ \/ containsIgnoringCase(n.name, call.searchTerm)
                         \/ /\ "city" \in DOMAIN n.location
                            /\ containsIgnoringCase(n.location.city,
                                                    call.searchTerm)})
        /\ ( /\ totalsOf(call.neighborhoods) = <<10, 40, 55>>
             /\ call.selectedFilters = Filters(0, 0, 100, 30)
             /\ call.searchTerm = << >> )
           => result.filteredNeighborhoods = SubSeq(call.neighborhoods, 2, 3)

\* C13 witness: of three neighborhoods the filter has kept the first and the
\* last, the search term matching the first by its name in another case and
\* the last by its city, and the second failing a numeric filter.
C13_Witness ==
    /\ Filtered
    /\ Len(call.neighborhoods) = 3
    /\ result.filteredNeighborhoods = <<call.neighborhoods[1], call.neighborhoods[3]>>
    /\ call.searchTerm # << >>
    /\ ~containsExactly(call.neighborhoods[1].name, call.searchTerm)
    /\ containsIgnoringCase(call.neighborhoods[3].location.city, call.searchTerm)
    /\ ~withinFilters(call.neighborhoods[2], call.selectedFilters)

\* C13 witness of the example: totals 10, 40 and 55 under minAmenities = 30
C13_Example ==
    /\ Filtered
    /\ totalsOf(call.neighborhoods) = <<10, 40, 55>>
    /\ call.selectedFilters = Filters(0, 0, 100, 30)
    /\ call.searchTerm = << >>
    /\ Len(result.filteredNeighborhoods) = 2

(***************************************************************************)
(* The order of the results.                                               *)
(***************************************************************************)
\* C14: the list of matching results returned is ranked: its
\* compatibility scores are in non-increasing order.
C14_RankedByScore ==
    Scored =>
        \A i, j \in DOMAIN response.data :
            i < j => Ge(response.data[i].compatibilityScore,
                        response.data[j].compatibilityScore)

(***************************************************************************)
(* The calculators called on their own.                                    *)
(***************************************************************************)
\* the call of fn has returned
Returned(fn) == result # None /\ "fn" \in DOMAIN call /\ call.fn = fn

\* the neighborhood with its safety score raised to 95
raisedTo95(neighborhood) == [neighborhood EXCEPT !.safety.safetyScore = 95]

\* C15: at any crime rate >= 0, the safety sub-score of a neighborhood with
\* safetyScore 70 is strictly less than that of the same neighborhood with
\* safetyScore 95.
C15_SafetyStrictlyIncreases ==
    ( /\ Returned("calculateSafetyScore")
      /\ call.neighborhood.safety.safetyScore = 70 )
    => Lt(result.value,
          calculateSafetyScore(call.preferences, raisedTo95(call.neighborhood)))

\* C15 witness: at crime rate 0 the score at 70 is 80 and the score at 95
\* is held at 100 by the cap.
C15_Witness ==
    /\ Returned("calculateSafetyScore")
    /\ call.neighborhood.safety = [crimeRate |-> 0, safetyScore |-> 70]
    /\ result.value = I(80)
    /\ calculateSafetyScore(call.preferences, raisedTo95(call.neighborhood)) = I(100)

\* calculateCompatibility has returned for a neighborhood with safetyScore 70
\* under a positive safety weight and seven other weights in 1..10
ScoredAtSafety70 ==
    /\ Returned("calculateCompatibility")
    /\ call.neighborhood.safety.safetyScore = 70
    /\ call.neighborhood.safety.crimeRate >= 0
    /\ call.preferences.priorities.safety > 0
    /\ \A k \in 2..Len(Categories) :
          call.preferences.priorities[Categories[k]] \in 1..10

\* the aggregate of the same call with the safety score raised to 95
aggregateAt95 ==
    calculateCompatibility(call.preferences, raisedTo95(call.neighborhood))

\* C16 as stated: raising safetyScore from 70 to 95 strictly increases the
\* aggregate whenever the safety weight is positive.
C16_AggregateStrictlyIncreases_Original ==
    ScoredAtSafety70 => Lt(result.value, aggregateAt95)

\* C16: raising safetyScore from 70 to 95 at a constant crime rate never
\* decreases the aggregate, for every positive safety weight and every
\* choice of the other seven weights in 1..10, and strictly increases it
\* whenever the safety weight is at least a twentieth of the sum of the
\* eight weights.
C16_AggregateIncreases ==
    ScoredAtSafety70 =>
        /\ Le(result.value, aggregateAt95)
        /\ 20 * call.preferences.priorities.safety
               >= SumValues(call.preferences.priorities)
           => Lt(result.value, aggregateAt95)

\* C16 witness: a safety weight of 1 among weights of 10, where the rise of
\* the sub-score is lost in the rounding of the aggregate.
C16_Witness ==
    /\ ScoredAtSafety70
    /\ call.preferences.priorities = Weights(1, 10, 10, 10, 10, 10, 10, 10)
    /\ result.value = aggregateAt95

\* C16 witness of the strict case: safety weight 10 among weights of 10
C16_StrictCase ==
    /\ ScoredAtSafety70
    /\ call.preferences.priorities = Weights(10, 10, 10, 10, 10, 10, 10, 10)
    /\ Lt(result.value, aggregateAt95)

\* C17: for every safetyScore and every crimeRate >= 0 the safety sub-score
\* is min(100, safetyScore + max(0, (50 - crimeRate)/50) * 10); a crime
\* rate of 50 or more adds no bonus; safetyScore 90 with crimeRate 5 gives
\* 99.  The formula is stated in fifths: five times the score is
\* min(500, 5 * safetyScore + max(0, 50 - crimeRate)).
C17_SafetyFormula ==
    Returned("calculateSafetyScore") =>
        LET safetyScore == call.neighborhood.safety.safetyScore
            crimeRate == call.neighborhood.safety.crimeRate
            bonusFifths == IF crimeRate < 50 THEN 50 - crimeRate ELSE 0
            fifths == IF 5 * safetyScore + bonusFifths < 500
                      THEN 5 * safetyScore + bonusFifths ELSE 500
        IN  /\ result.value = Num(fifths, 5)
            /\ crimeRate >= 50 => result.value = I(safetyScore)
            /\ (safetyScore = 90 /\ crimeRate = 5) => result.value = I(99)

\* C17 witness: the example, safetyScore 90 with crimeRate 5, has returned 99
C17_Witness ==
    /\ Returned("calculateSafetyScore")
    /\ call.neighborhood.safety = [crimeRate |-> 5, safetyScore |-> 90]
    /\ result.value = I(99)

\* C17 witness of the clamp: a crime rate above 50 has added no bonus
C17_NoBonus ==
    /\ Returned("calculateSafetyScore")
    /\ call.neighborhood.safety = [crimeRate |-> 60, safetyScore |-> 70]
    /\ result.value = I(70)

\* C18: with cost = medianIncome * 0.3, the affordability sub-score is 100
\* exactly when budget.min <= cost <= budget.max; otherwise 80 when
\* cost <= 1.2 * budget.max; otherwise 50 when cost <= 1.5 * budget.max;
\* otherwise 20.  The comparisons are stated in tenths: ten times the cost
\* is 3 * medianIncome.
C18_AffordabilityTiers ==
    Returned("calculateAffordabilityScore") =>
        LET budget == call.preferences.budget
            costTenths == 3 * call.neighborhood.demographics.medianIncome
            withinBudget == /\ 10 * budget.min <= costTenths
                            /\ costTenths <= 10 * budget.max
        IN  /\ (result.value = I(100)) <=> withinBudget
            /\ ~withinBudget =>
                   result.value =
                       IF costTenths <= 12 * budget.max THEN I(80)
                       ELSE IF costTenths <= 15 * budget.max THEN I(50)
                       ELSE I(20)

\* C18 witness: a cost of exactly 1.2 times budget.max, above the budget,
\* has scored 80.
C18_Witness ==
    /\ Returned("calculateAffordabilityScore")
    /\ call.preferences.budget = [min |-> 40000, max |-> 60000]
    /\ call.neighborhood.demographics.medianIncome = 240000
    /\ result.value = I(80)

\* C18 witness of the other tiers: a budget under which the four scores
\* are reached is the budget of the call, and the call has scored 100, 50
\* or 20 at a limit of its tier
C18_OtherTiers ==
    /\ Returned("calculateAffordabilityScore")
    /\ call.preferences.budget = [min |-> 40000, max |-> 60000]
    /\ \/ /\ call.neighborhood.demographics.medianIncome = 200000
          /\ result.value = I(100)
       \/ /\ call.neighborhood.demographics.medianIncome = 300000
          /\ result.value = I(50)
       \/ /\ call.neighborhood.demographics.medianIncome = 302500
          /\ result.value = I(20)

\* the average of the metrics that the activity level names
activityAverage(userActivityLevel, lifestyle) ==
    LET outdoor == lifestyle.outdoorActivities
        cultural == lifestyle.culturalEvents
    IN  CASE userActivityLevel = "high" -> Num(outdoor + cultural, 2)
          [] userActivityLevel = "medium" -> Num(outdoor + cultural + 50, 3)
          [] userActivityLevel = "low" -> Num((100 - outdoor) + (100 - cultural), 2)

\* the average of the metrics that the social preference names
socialAverage(socialPreference, lifestyle) ==
    LET community == lifestyle.communityEngagement
        nightlife == lifestyle.nightlife
    IN  CASE socialPreference = "extrovert" -> Num(community + nightlife, 2)
          [] socialPreference = "introvert" ->
                 Num((100 - community) + (100 - nightlife), 2)
          [] socialPreference = "balanced" -> Num(community + (100 - nightlife), 2)

\* round(0.3 * ageGroupCompat + 0.3 * activityCompat + 0.4 * socialCompat)
\* in tenths: the nearest integer to (3a + 3b + 4c) / 10, a tie going up
roundedBlend(ageGroupCompat, activityCompat, socialCompat) ==
    LET tenths == Add(Add(Mul(I(3), ageGroupCompat), Mul(I(3), activityCompat)),
                      Mul(I(4), socialCompat))
    IN  I(FloorDiv(2 * tenths.n + 10 * tenths.d, 20 * tenths.d))

\* the age-group compatibility of the call
ageGroupCompatOfCall ==
    calculateAgeGroupCompatibility(call.preferences.lifestyle.ageGroup,
                                   call.neighborhood.demographics)

\* C19 as stated: the lifestyle sub-score equals round(0.3 * ageGroupCompat
\* + 0.3 * activityCompat + 0.4 * socialCompat) with activityCompat and
\* socialCompat the plain, unrounded averages of the enum value.
C19_LifestyleBlend_Original ==
    Returned("calculateLifestyleScore") =>
        result.value =
            roundedBlend(ageGroupCompatOfCall,
                         activityAverage(call.preferences.lifestyle.activityLevel,
                                         call.neighborhood.lifestyle),
                         socialAverage(call.preferences.lifestyle.socialPreference,
                                       call.neighborhood.lifestyle))

\* C19: the lifestyle sub-score equals round(0.3 * ageGroupCompat
\* + 0.3 * activityCompat + 0.4 * socialCompat) with activityCompat and
\* socialCompat the averages of the enum value, each rounded to the nearest
\* integer, for integer metric values in 0..100.
C19_LifestyleBlend ==
    Returned("calculateLifestyleScore") =>
        result.value =
            roundedBlend(ageGroupCompatOfCall,
                         MathRound(activityAverage(
                             call.preferences.lifestyle.activityLevel,
                             call.neighborhood.lifestyle)),
                         MathRound(socialAverage(
                             call.preferences.lifestyle.socialPreference,
                             call.neighborhood.lifestyle)))

\* C19 witness: a call whose activity average is not whole (outdoor 0 and
\* cultural 1 at level high: 0.5, rounded to 1) has returned, and the blend
\* of the rounded averages, 22.5 + 0.3 + 24 = 46.8, has given 47
C19_Witness ==
    /\ Returned("calculateLifestyleScore")
    /\ call.preferences.lifestyle = UserLifestyle("mixed", "high", "balanced")
    /\ call.neighborhood.lifestyle = LifestyleMetrics(45, 28, 0, 1, 65)
    /\ result.value = I(47)

\* C19: a call on which the rounding of an average changes the sub-score:
\* outdoor 13 and cultural 0 at level high average 6.5; the code blends 7,
\* 22.5 + 2.1 + 24 = 48.6, and returns 49, where the plain average gives
\* 22.5 + 1.95 + 24 = 48.45, that is 48
C19_RoundingShows ==
    /\ Returned("calculateLifestyleScore")
    /\ call.preferences.lifestyle = UserLifestyle("mixed", "high", "balanced")
    /\ call.neighborhood.lifestyle = LifestyleMetrics(45, 28, 13, 0, 65)
    /\ result.value = I(49)
    /\ roundedBlend(ageGroupCompatOfCall,
                    activityAverage("high", call.neighborhood.lifestyle),
                    socialAverage("balanced", call.neighborhood.lifestyle)) = I(48)

\* min(25, schools*5) + min(25, (parks + familyActivities)*2) of the call
familyAmenityPoints ==
    LET schoolPoints == call.neighborhood.amenities.schools * 5
        parkPoints == (call.neighborhood.amenities.parks
                       + call.neighborhood.lifestyle.familyActivities) * 2
    IN  (IF schoolPoints < 25 THEN schoolPoints ELSE 25)
        + (IF parkPoints < 25 THEN parkPoints ELSE 25)

\* under18 + age35to49 of the call
familyHeadcount ==
    call.neighborhood.demographics.ageGroups.under18
    + call.neighborhood.demographics.ageGroups.age35to49

\* never above 100 when under18 + age35to49 <= totalPopulation
FamilyScoreBounded ==
    familyHeadcount <= call.neighborhood.demographics.totalPopulation =>
        Le(result.value, I(100))

\* C20 as stated: the family-friendliness sub-score equals
\* min(25, schools*5) + min(25, (parks + familyActivities)*2)
\* + ((under18 + age35to49) / totalPopulation) * 50, and never exceeds 100
\* when under18 + age35to49 <= totalPopulation and totalPopulation > 0.
C20_FamilyFormula_Original ==
    (Returned("calculateFamilyFriendlyScore")
     /\ call.neighborhood.demographics.totalPopulation > 0) =>
        LET totalPopulation == call.neighborhood.demographics.totalPopulation
        IN  /\ result.value =
                   Num(familyAmenityPoints * totalPopulation + 50 * familyHeadcount,
                       totalPopulation)
            /\ FamilyScoreBounded

\* C20: the family-friendliness sub-score equals that sum rounded to the
\* nearest integer (a tie going up), and never exceeds 100 when
\* under18 + age35to49 <= totalPopulation and totalPopulation > 0.
C20_FamilyFormula ==
    (Returned("calculateFamilyFriendlyScore")
     /\ call.neighborhood.demographics.totalPopulation > 0) =>
        LET totalPopulation == call.neighborhood.demographics.totalPopulation
        IN  /\ result.value =
                   I(familyAmenityPoints
                     + (100 * familyHeadcount + totalPopulation)
                           \div (2 * totalPopulation))
            /\ FamilyScoreBounded

\* C20 witness: two of a population of three are under 18 or 35 to 49, with
\* 3 schools, 2 parks and familyActivities 5: 15 + 14 + 33.33 has returned 62
C20_Witness ==
    /\ Returned("calculateFamilyFriendlyScore")
    /\ call.neighborhood.demographics.totalPopulation = 3
    /\ familyHeadcount = 2
    /\ call.neighborhood.amenities.schools = 3
    /\ call.neighborhood.amenities.parks = 2
    /\ call.neighborhood.lifestyle.familyActivities = 5
    /\ result.value = I(62)

\* C20 witness of the bound: the whole population counted, both caps
\* reached, and 100 returned
C20_Full ==
    /\ Returned("calculateFamilyFriendlyScore")
    /\ familyHeadcount = call.neighborhood.demographics.totalPopulation
    /\ familyAmenityPoints = 50
    /\ result.value = I(100)

\* C20: beyond the precondition of the bound (1100 counted of a population
\* of 1000) the sub-score has exceeded 100
C20_BeyondPopulation ==
    /\ Returned("calculateFamilyFriendlyScore")
    /\ familyHeadcount > call.neighborhood.demographics.totalPopulation
    /\ Gt(result.value, I(100))

\* C21: the quietness sub-score equals round(max(0, 100 - (lifestyle.nightlife
\* + amenities.entertainment) / 2)): with noise == nightlife + entertainment,
\* 0 from noise 200 up and 100 less the whole half of noise below (a half
\* rounds up); it is never negative; and nightlife 80 with entertainment 20
\* gives 50 whatever the bars count.
C21_QuietnessFormula ==
    Returned("calculateQuietnessScore") =>
        LET noise == call.neighborhood.lifestyle.nightlife
                     + call.neighborhood.amenities.entertainment
        IN  /\ result.value = I(IF noise >= 200 THEN 0 ELSE 100 - noise \div 2)
            /\ Ge(result.value, I(0))
            /\ (call.neighborhood.lifestyle.nightlife = 80
                /\ call.neighborhood.amenities.entertainment = 20) =>
                   result.value = I(50)

\* C21 witness: Scenario D (bars 10, entertainment 20, nightlife 80) has
\* scored 50
C21_Witness ==
    /\ Returned("calculateQuietnessScore")
    /\ call.neighborhood.lifestyle.nightlife = 80
    /\ call.neighborhood.amenities.entertainment = 20
    /\ call.neighborhood.amenities.bars = 10
    /\ result.value = I(50)

\* C21 witness of the other cases: Scenario D's metrics under another bars
\* count, a noise factor above 100 scored 0, and a half rounded up
\* (100 - 199/2 = 0.5 scored 1)
C21_OtherCases ==
    /\ Returned("calculateQuietnessScore")
    /\ \/ /\ call.neighborhood.lifestyle.nightlife = 80
          /\ call.neighborhood.amenities.entertainment = 20
          /\ call.neighborhood.amenities.bars = 40
          /\ result.value = I(50)
       \/ /\ call.neighborhood.lifestyle.nightlife = 110
          /\ call.neighborhood.amenities.entertainment = 150
          /\ result.value = I(0)
       \/ /\ call.neighborhood.lifestyle.nightlife = 99
          /\ call.neighborhood.amenities.entertainment = 100
          /\ result.value = I(1)

\* the store has returned from a call of fn
StoreReturned(fn) == call # None /\ call.fn = fn

\* this step is the return of a call of fn
StoreReturns(fn) == call' # None /\ call'.fn = fn

\* the values saveUserPreferences falls back on when the user has no record
SaveFallbacks ==
    [ location    |-> [latitude |-> Num(407128, 10000),
                       longitude |-> Num(-740060, 10000),
                       city |-> "New York", state |-> "NY", zipCode |-> "10001"],
      budget      |-> [min |-> 50000, max |-> 150000],
      priorities  |-> Weights(8, 7, 6, 7, 8, 5, 6, 5),
      lifestyle   |-> [ageGroup |-> "mixed", activityLevel |-> "medium",
                       socialPreference |-> "balanced", workStyle |-> "hybrid"],
      mustHaves   |-> << >>,
      dealBreakers |-> << >> ]

\* the update names member key of group
Supplies(preferences, group, key) ==
    group \in DOMAIN preferences /\ key \in DOMAIN preferences[group]

\* what an omitted field must hold after a save: the value of the record
\* stored before, or the fallback when there was none
Kept(existing, fallbacks) == IF existing # None THEN existing ELSE fallbacks

\* the save of this step merged field by field, and getUserPreferences on
\* the store it leaves gives the record it returned
SaveMergedFieldwise ==
    LET userId == call'.userId
        preferences == call'.preferences
        kept == Kept(getUserPreferences(storedPreferences, userId), SaveFallbacks)
        stored == getUserPreferences(storedPreferences', userId)
    IN  /\ stored # None
        /\ \A key \in {"location", "budget", "mustHaves", "dealBreakers"} :
               key \notin DOMAIN preferences => stored[key] = kept[key]
        /\ \A group \in {"priorities", "lifestyle"} :
               \A key \in DOMAIN SaveFallbacks[group] :
                   ~Supplies(preferences, group, key) =>
                       stored[group][key] = kept[group][key]
        /\ stored = result'.value

\* C22: saveUserPreferences is a field-wise merge: a top-level field, a
\* single priority weight or a single lifestyle field that the update omits
\* keeps the value stored before for that user, and takes the fixed default
\* only when the user had no stored record; getUserPreferences then returns
\* exactly the record the save returned.
C22_SaveIsFieldwiseMerge ==
    [][StoreReturns("saveUserPreferences") => SaveMergedFieldwise]_vars

\* C22 witness: after earlier saves of a budget, of all weights and lifestyle
\* fields and of a safety weight, a save that names only lifestyle.ageGroup
\* has returned a record with the saved budget, weights and work style
C22_Witness ==
    /\ StoreReturned("saveUserPreferences")
    /\ call.userId = "ann"
    /\ call.preferences = [lifestyle |-> [ageGroup |-> "family"]]
    /\ result.value.budget = [min |-> 10000, max |-> 40000]
    /\ result.value.priorities = Weights(10, 2, 3, 4, 9, 10, 1, 2)
    /\ result.value.lifestyle =
           [ageGroup |-> "family", activityLevel |-> "high",
            socialPreference |-> "extrovert", workStyle |-> "remote"]
    /\ getUserPreferences(storedPreferences, "ann") = result.value

\* C22 witness of the defaults: the same save for a user with no record
\* (the other user has one) has returned the fixed defaults around the
\* named field
C22_FirstSave ==
    /\ StoreReturned("saveUserPreferences")
    /\ call.userId = "ann"
    /\ call.preferences = [lifestyle |-> [ageGroup |-> "family"]]
    /\ result.value =
           [SaveFallbacks EXCEPT !.lifestyle.ageGroup = "family"]
               @@ [id |-> "ann"]
    /\ "bob" \in DOMAIN storedPreferences

\* the eight priority weights of every stored record are non-zero, and
\* their sum is positive
StoredWeightsNonZero ==
    \A userId \in DOMAIN storedPreferences :
        LET priorities == storedPreferences[userId].priorities
        IN  /\ DOMAIN priorities = DOMAIN SaveFallbacks.priorities
            /\ \A key \in DOMAIN priorities : priorities[key] # 0
            /\ priorities.safety + priorities.amenities + priorities.transportation
                + priorities.lifestyle + priorities.affordability
                + priorities.familyFriendly + priorities.nightlife
                + priorities.quietness > 0

\* the save of this step stored, for each weight supplied as 0, the weight
\* stored before or, with no record before, the default
ZeroWeightFallsBack ==
    LET userId == call'.userId
        preferences == call'.preferences
        kept == Kept(getUserPreferences(storedPreferences, userId), SaveFallbacks)
    IN  \A key \in DOMAIN SaveFallbacks.priorities :
            (Supplies(preferences, "priorities", key)
             /\ preferences.priorities[key] = 0) =>
                storedPreferences'[userId].priorities[key] = kept.priorities[key]

\* C23: in every reachable state of the preference store each of the eight
\* priority weights of every stored record is non-zero, so that their sum
\* is positive: a save that supplies 0 for a weight stores the previously
\* stored value or the default instead.
C23_StoredWeightsNonZero ==
    /\ []StoredWeightsNonZero
    /\ [][StoreReturns("saveUserPreferences") => ZeroWeightFallsBack]_vars

\* C23 witness: a save that supplies nightlife 0 and safety 10 to a record
\* whose nightlife weight was saved as 1 has stored 1 and 10
C23_Witness ==
    /\ StoreReturned("saveUserPreferences")
    /\ call.userId = "ann"
    /\ call.preferences = [priorities |-> [safety |-> 10, nightlife |-> 0]]
    /\ storedPreferences["ann"].priorities = Weights(10, 2, 3, 4, 9, 10, 1, 2)

\* C23 witness of the default: the same save with no record before has
\* stored the default nightlife weight, 6
C23_DefaultWeight ==
    /\ StoreReturned("saveUserPreferences")
    /\ call.userId = "ann"
    /\ call.preferences = [priorities |-> [safety |-> 10, nightlife |-> 0]]
    /\ storedPreferences["ann"].priorities = Weights(10, 7, 6, 7, 8, 5, 6, 5)
    /\ storedPreferences["ann"].mustHaves = << >>

\* every stored record's id is the key it is stored under
IdsAreKeys ==
    \A userId \in DOMAIN storedPreferences :
        storedPreferences[userId].id = userId

\* this step is the return of a call for one user: a method of the service
\* other than clearAllPreferences, or one of the routes
ReturnsForOneUser == call' # None /\ "userId" \in DOMAIN call'

\* the record, or the absence of a record, of every other user is as before
OthersUnchanged ==
    \A other \in StoreUserIds \ {call'.userId} :
        getUserPreferences(storedPreferences', other)
            = getUserPreferences(storedPreferences, other)

\* C24: saveUserPreferences, generateDefaultPreferences and
\* deleteUserPreferences applied to one user (directly or by a route) leave
\* the stored record, or the absence of a record, of every other user
\* unchanged, and every stored record's id equals the key it is stored under.
C24_PerUserIsolation ==
    /\ []IdsAreKeys
    /\ [][ReturnsForOneUser => OthersUnchanged]_vars

\* C24 witness: a save for one user, with another id in its body, has
\* returned while the other user holds a record with a budget of its own;
\* the two records differ and each carries its key as id
C24_Witness ==
    /\ StoreReturned("saveUserPreferences")
    /\ call.userId = "ann"
    /\ hasMember(call.preferences, "id")
    /\ call.preferences.id = "eve"
    /\ storedPreferences["ann"].id = "ann"
    /\ "bob" \in DOMAIN storedPreferences
    /\ storedPreferences["bob"].id = "bob"
    /\ storedPreferences["bob"].budget = [min |-> 50000, max |-> 150000]
    /\ storedPreferences["ann"].budget = [min |-> 10000, max |-> 40000]

\* C24 witness of the other calls: a delete and a generateDefaultPreferences
\* for one user have returned with the other user's saved record in place
C24_OtherCalls ==
    /\ \/ StoreReturned("deleteUserPreferences") /\ "ann" \notin DOMAIN storedPreferences
       \/ StoreReturned("generateDefaultPreferences")
    /\ call.userId = "ann"
    /\ "bob" \in DOMAIN storedPreferences
    /\ storedPreferences["bob"].location = BostonLocation

\* the factory defaults of a user
FactoryDefaults(userId) ==
    [ id          |-> userId,
      location    |-> [latitude |-> Num(407128, 10000),
                       longitude |-> Num(-740060, 10000),
                       city |-> "New York", state |-> "NY", zipCode |-> "10001"],
      budget      |-> [min |-> 50000, max |-> 150000],
      priorities  |-> Weights(8, 7, 6, 7, 8, 5, 6, 5),
      lifestyle   |-> [ageGroup |-> "mixed", activityLevel |-> "medium",
                       socialPreference |-> "balanced", workStyle |-> "hybrid"],
      mustHaves   |-> <<"Grocery store nearby", "Public transportation">>,
      dealBreakers |-> <<"High crime rate", "Poor school ratings">> ]

GetRoute == "GET /api/preferences/:userId"
DeleteRoute == "DELETE /api/preferences/:userId"

\* the GET of this step is get-or-create
GetOrCreate ==
    LET userId == call'.userId
        data == result'.value.data
    IN  /\ result'.value.success
        /\ getUserPreferences(storedPreferences', userId) = data
        /\ userId \notin DOMAIN storedPreferences => data = FactoryDefaults(userId)
        /\ (StoreReturned(GetRoute) /\ call.userId = userId) =>
               data = result.value.data
        /\ (StoreReturned(DeleteRoute) /\ call.userId = userId) =>
               data = FactoryDefaults(userId)

\* the DELETE of this step reports whether a record existed, and leaves none
DeleteReports ==
    /\ result'.value.data.deleted = (call'.userId \in DOMAIN storedPreferences)
    /\ call'.userId \notin DOMAIN storedPreferences'

\* C25: GET /api/preferences/:userId is get-or-create: after it returns, a
\* record for userId is stored (the one returned); a GET for a user with no
\* record stores and returns the factory defaults; two consecutive GETs
\* return the same record; DELETE reports deleted = true exactly when a
\* record existed, and a GET after DELETE returns the factory defaults
\* rather than the deleted values.
C25_GetOrCreate ==
    /\ [][StoreReturns(GetRoute) => GetOrCreate]_vars
    /\ [][StoreReturns(DeleteRoute) => DeleteReports]_vars

\* C25 witness: a GET for a user with no record, while the other user has a
\* saved one, has stored and returned the factory defaults
C25_Witness ==
    /\ StoreReturned(GetRoute)
    /\ call.userId = "ann"
    /\ result.value.data = FactoryDefaults("ann")
    /\ storedPreferences["ann"] = FactoryDefaults("ann")
    /\ "bob" \in DOMAIN storedPreferences
    /\ storedPreferences["bob"] # FactoryDefaults("bob")

\* C25 witness of the stored record: a GET has returned a saved record that
\* is not the factory defaults
C25_GetSaved ==
    /\ StoreReturned(GetRoute)
    /\ call.userId = "ann"
    /\ result.value.data.budget = [min |-> 10000, max |-> 40000]
    /\ storedPreferences["ann"] = result.value.data

\* C25 witness of DELETE: deleted = true has been reported, and deleted =
\* false, with the deleted user absent either way
C25_Deleted ==
    /\ StoreReturned(DeleteRoute)
    /\ call.userId = "ann"
    /\ result.value.data.deleted
    /\ "ann" \notin DOMAIN storedPreferences

C25_NothingToDelete ==
    /\ StoreReturned(DeleteRoute)
    /\ call.userId = "ann"
    /\ ~result.value.data.deleted
    /\ "bob" \in DOMAIN storedPreferences

\* caller's call of getNeighborhoodData starts in this step
Begins(caller) == fetches[caller].pc = "idle" /\ fetches'[caller].pc # "idle"

\* caller's call of getNeighborhoodData comes back from its await, builds
\* its record and returns it in this step
Finishes(caller) ==
    fetches[caller].pc = "fetching" /\ fetches'[caller].pc = "returned"

\* the cache key of a latitude and longitude
KeyOf(location) == <<"neighborhood", location.latitude, location.longitude>>

\* the milliseconds since the entry of the location was cached
Elapsed(location) == now - cache[KeyOf(location)].timestamp

\* a call starting in this step is served from an entry cached less than
\* 3600 seconds ago, which stays as it is, and goes to generate a record
\* when the entry is 3600 seconds old or older, as when there is none
ServedWhileFresh(caller) ==
    LET location == fetches'[caller].location
    IN  IF KeyOf(location) \in DOMAIN cache
        THEN IF Elapsed(location) < 3600 * 1000
             THEN /\ fetches'[caller].pc = "returned"
                  /\ fetches'[caller].result = cache[KeyOf(location)].data
                  /\ cache' = cache
             ELSE /\ fetches'[caller].pc = "fetching"
                  /\ cache' = cache
        ELSE fetches'[caller].pc = "fetching"

\* the record a call generates replaces the entry of its location, stamped
\* with the time of the step
GeneratedReplaces(caller) ==
    LET location == fetches'[caller].location
    IN  /\ KeyOf(location) \in DOMAIN cache'
        /\ cache'[KeyOf(location)] =
               [data |-> fetches'[caller].result, timestamp |-> now]

C26_Regenerated ==
    /\ now = 2 * ClockStep
    /\ fetches[1].pc = "returned"
    /\ fetches[2].pc = "idle"
    /\ KeyOf(fetches[1].location) \in DOMAIN cache
    /\ cache[KeyOf(fetches[1].location)] =
           [data |-> fetches[1].result, timestamp |-> now]

\* first's call and second's overlapped: first has stored and returned its
\* record at the present time, and second, for the same latitude/longitude,
\* is still at its await, which it reached before first stored (a call
\* starting after would have been served from the entry)
Overlapped(first, second) ==
    /\ fetches[first].pc = "returned"
    /\ fetches[second].pc = "fetching"
    /\ fetches[second].location = fetches[first].location
    /\ KeyOf(fetches[first].location) \in DOMAIN cache
    /\ cache[KeyOf(fetches[first].location)] =
           [data |-> fetches[first].result, timestamp |-> now]

\* C27: two getNeighborhoodData calls for the same latitude/longitude that
\* overlap (the second starts before the first has stored its result)
\* return the same neighborhood record, and the cache afterwards holds that
\* record.
C27_OverlappingCallsAgree ==
    [][\A first \in Callers, second \in Callers :
           (Overlapped(first, second) /\ Finishes(second)) =>
               /\ fetches'[second].result = fetches[first].result
               /\ cache'[KeyOf(fetches[first].location)].data
                      = fetches[first].result]_vars

\* C27: both callers hold records for the same latitude/longitude, stored
\* at the same time, and the records differ
C27_Diverged ==
    /\ now = 0
    /\ fetches[1].pc = "returned"
    /\ fetches[2].pc = "returned"
    /\ fetches[1].location = fetches[2].location
    /\ fetches[1].result # fetches[2].result
    /\ cache[KeyOf(fetches[1].location)].data = fetches[2].result

\* the id route responds in this step
RespondsById ==
    /\ pc = "getting"
    /\ pc' = "responded"

\* C28: for a neighborhood returned by GET /api/neighborhoods, a following
\* GET /api/neighborhoods/:id with that record's id, within the cache TTL,
\* returns the same neighborhood record that was listed under that id.
C28_IdRoundTrip ==
    [][(RespondsById /\ now - result.at < 3600 * 1000) =>
           /\ response'.status = 200
           /\ \A i \in DOMAIN result.listed :
                  result.listed[i].id = request.id =>
                      response'.body.data = result.listed[i]]_vars

\* C28: the id route has answered, at the time of the listing, with a
\* record that carries the id asked for and is not the record listed
\* under that id, which lies at another latitude
C28_OtherRecord ==
    /\ pc = "responded"
    /\ request.route = "GET /api/neighborhoods/:id"
    /\ now = result.at
    /\ response.body.data.id = request.id
    /\ \E i \in DOMAIN result.listed :
          /\ result.listed[i].id = request.id
          /\ result.listed[i] # response.body.data
          /\ result.listed[i].location.latitude = Num(4050003, 100000)
          /\ response.body.data.location.latitude = Num(405, 10)

\* C28: a record listed at a latitude and longitude of four decimals has
\* come back from the id route as it was listed
C28_SameRecord ==
    /\ pc = "responded"
    /\ request.route = "GET /api/neighborhoods/:id"
    /\ \A i \in DOMAIN result.listed :
          result.listed[i].id = request.id =>
              result.listed[i] = response.body.data


\* the fetch that fetchNeighborhoods last awaited answered the list
LastFetchSucceeded ==
    /\ pc = "idle"
    /\ response # None
    /\ response.kind = "json"
    /\ response.body.success

\* C29: whenever the most recent call of fetchNeighborhoods has completed
\* with a successful fetch, loading is false and error is null, and the
\* page shows the list and not the error view, also when that fetch is a
\* Try Again after a failed one.
C29_SuccessShowsList ==
    LastFetchSucceeded =>
        /\ call.loading = FALSE
        /\ call.error = None
        /\ result.view = "list"


\* what does hold after a successful fetch: loading is false, the list is
\* the one fetched, and the view is the list only if no earlier fetch of
\* the page has failed
C29_ErrorOutlivesRetry ==
    LastFetchSucceeded =>
        /\ call.loading = FALSE
        /\ call.neighborhoods = response.body.data
        /\ result.view = (IF call.error = None THEN "list" ELSE "error")


\* the matching route has answered a request of handleFindMatches
FindMatchesAnswered == pc = "responded" /\ call.loading

\* C30: a find-matches request that handleFindMatches sends once the
\* preferences are loaded carries both a preferences object and a
\* neighborhoods list, and the matching route answers it with success and
\* one MatchingResult per neighborhood, not with the 400 response.
C30_FindMatchesSucceeds ==
    FindMatchesAnswered =>
        /\ hasMember(request, "preferences")
        /\ hasMember(request, "neighborhoods")
        /\ response.status = 200
        /\ response.success
        /\ Len(response.data) = Len(request.neighborhoods)

\* what does hold: the body is the loaded preferences record itself, and
\* the route answers it with the 400 response
C30_FindMatchesRefused ==
    FindMatchesAnswered =>
        /\ request = call.preferences
        /\ request.id = DemoUserId
        /\ ~hasMember(request, "neighborhoods")
        /\ response = [status |-> 400, success |-> FALSE,
                       error |-> "Missing preferences or neighborhoods"]

=============================================================================
